---- MODULE Spec2Model ----
(***************************************************************************)
(* Model of the dice simulation engine of unluigi (The Ninth Age dice      *)
(* simulator): the dice primitives and the dice-expression parser of       *)
(* engine/dice.ts and the attack-sequence simulator of                     *)
(* engine/simulator.ts.  One behaviour is one call of runSimulation: the   *)
(* parameters are fixed in the initial state, and every die the code rolls *)
(* with Math.random is a nondeterministic choice in 1..6.                  *)
(***************************************************************************)
EXTENDS Integers, Sequences, FiniteSets, TLC

(***************************************************************************)
(* Bounds of the model.                                                    *)
(***************************************************************************)
\* largest fixed attack count drawn for a run
MaxAttacks == 2
\* largest number of trials (iterations) drawn for a run
MaxIterations == 2

(***************************************************************************)
(* Values.  A threshold (HitValue) is 2..6, "auto" or "none"; a dice       *)
(* expression is a number or a string, a string being a sequence of        *)
(* one-character strings.                                                  *)
(***************************************************************************)
Auto == [tag |-> "auto"]
None == [tag |-> "none"]
Target(n) == [tag |-> "num", n |-> n]
HitValue == {Target(n) : n \in 2..6} \cup {Auto, None}

FailureRerollType == {"none", "1s", "all"}
SuccessRerollType == {"none", "6s", "all"}

NumberExpr(n) == [type |-> "number", value |-> n]
StringExpr(s) == [type |-> "string", value |-> s]

Min(a, b) == IF a < b THEN a ELSE b

(***************************************************************************)
(* engine/dice.ts                                                          *)
(***************************************************************************)
\* rollD6: Math.floor(Math.random() * 6) + 1, every value it can return
rollD6 == 1..6

\* rollD3 rounding down: Math.floor(rollD6() / 2)
rollD3RoundingDown == {r \div 2 : r \in rollD6}

\* rollD3: Math.ceil(rollD6() / 2), every value it can return
rollD3 == {(r + 1) \div 2 : r \in rollD6}

\* rollMultipleD6(count): the sums of count rolls of a D6 (0 when count <= 0)
RECURSIVE rollMultipleD6(_)
rollMultipleD6(count) ==
  IF count <= 0 THEN {0}
  ELSE {s + r : s \in rollMultipleD6(count - 1), r \in rollD6}

\* the loop "for (i < count) result += rollD3()" of parseDiceExpression
RECURSIVE rollMultipleD3(_)
rollMultipleD3(count) ==
  IF count <= 0 THEN {0}
  ELSE {s + r : s \in rollMultipleD3(count - 1), r \in rollD3}

Digits == {"0", "1", "2", "3", "4", "5", "6", "7", "8", "9"}
Whitespace == {" "}

DigitValue(c) ==
  CASE c = "0" -> 0 [] c = "1" -> 1 [] c = "2" -> 2 [] c = "3" -> 3
    [] c = "4" -> 4 [] c = "5" -> 5 [] c = "6" -> 6 [] c = "7" -> 7
    [] c = "8" -> 8 [] c = "9" -> 9

\* expression.replace(/\s+/g, ""): the characters that are not whitespace
RECURSIVE StripWhitespace(_)
StripWhitespace(s) ==
  IF s = <<>> THEN <<>>
  ELSE IF Head(s) \in Whitespace THEN StripWhitespace(Tail(s))
  ELSE <<Head(s)>> \o StripWhitespace(Tail(s))

\* toLowerCase on the characters the model draws
LowerChar(c) == IF c = "D" THEN "d" ELSE c
ToLowerCase(s) == [k \in 1..Len(s) |-> LowerChar(s[k])]

\* /^\d+$/.test(s)
IsDigits(s) == Len(s) > 0 /\ \A k \in 1..Len(s) : s[k] \in Digits

\* Number.parseInt(s, 10) of a string of digits with an optional sign
RECURSIVE ParseDigits(_, _)
ParseDigits(s, acc) ==
  IF s = <<>> THEN acc ELSE ParseDigits(Tail(s), 10 * acc + DigitValue(Head(s)))
ParseInt(s) ==
  IF Head(s) = "-" THEN 0 - ParseDigits(Tail(s), 0)
  ELSE IF Head(s) = "+" THEN ParseDigits(Tail(s), 0)
  ELSE ParseDigits(s, 0)

\* the length of the longest prefix of digits: the group (\d*)
RECURSIVE DigitPrefixLen(_)
DigitPrefixLen(s) ==
  IF s = <<>> \/ Head(s) \notin Digits THEN 0 ELSE 1 + DigitPrefixLen(Tail(s))

\* MatchDice with a modifier of a sign alone: /^(\d*)d([36])([+-]\d*)?$/
MatchDiceSignAlone(expr) ==
  LET p == DigitPrefixLen(expr)
      rest == SubSeq(expr, p + 3, Len(expr))
  IN  IF /\ Len(expr) >= p + 2
         /\ expr[p + 1] = "d"
         /\ expr[p + 2] \in {"3", "6"}
         /\ \/ rest = <<>>
            \/ Head(rest) \in {"+", "-"}
               /\ \A k \in 2..Len(rest) : rest[k] \in Digits
      THEN [matched |-> TRUE, count |-> SubSeq(expr, 1, p),
            sides |-> <<expr[p + 2]>>, modifier |-> rest]
      ELSE [matched |-> FALSE]

\* expr.match(/^(\d*)d([36])([+-]\d+)?$/): the groups, or matched = FALSE
MatchDice(expr) ==
  LET p == DigitPrefixLen(expr)
      rest == SubSeq(expr, p + 3, Len(expr))
  IN  IF /\ Len(expr) >= p + 2
         /\ expr[p + 1] = "d"
         /\ expr[p + 2] \in {"3", "6"}
         /\ \/ rest = <<>>
            \/ Head(rest) \in {"+", "-"} /\ IsDigits(Tail(rest))
      THEN [matched |-> TRUE, count |-> SubSeq(expr, 1, p),
            sides |-> <<expr[p + 2]>>, modifier |-> rest]
      ELSE [matched |-> FALSE]

Returns(v) == [throws |-> FALSE, value |-> v]
Throws == [throws |-> TRUE]

\* parseDiceExpression(expression): every outcome of one call, a returned
\* value or a thrown error
parseDiceExpression(expression) ==
  IF expression.type = "number" THEN {Returns(expression.value)}
  ELSE
    LET expr == ToLowerCase(StripWhitespace(expression.value))
        m == MatchDice(expr)
    IN  IF IsDigits(expr) THEN {Returns(ParseInt(expr))}
        ELSE IF ~m.matched THEN {Throws}
        ELSE
          LET count == IF m.count # <<>> THEN ParseInt(m.count) ELSE 1
              sides == ParseInt(m.sides)
              modifier == IF m.modifier # <<>> THEN ParseInt(m.modifier) ELSE 0
          IN  IF sides # 3 /\ sides # 6 THEN {Throws}
              ELSE IF sides = 6
                   THEN {Returns(result + modifier) : result \in rollMultipleD6(count)}
                   ELSE {Returns(result + modifier) : result \in rollMultipleD3(count)}

\* isSuccess with the two sentinels exchanged
isSuccessSentinelsSwapped(roll, target) ==
  IF target = Auto THEN FALSE
  ELSE IF target = None THEN TRUE
  ELSE roll >= target.n

\* isSuccess with "auto" read as 2+: a roll of 1 fails
isSuccessAutoFailsOnOne(roll, target) ==
  IF target = Auto THEN roll >= 2
  ELSE IF target = None THEN FALSE
  ELSE roll >= target.n

\* isSuccess(roll, target)
isSuccess(roll, target) ==
  IF target = Auto THEN TRUE
  ELSE IF target = None THEN FALSE
  ELSE roll >= target.n

\* shouldRerollSplit(roll, target, failurePolicy, successPolicy): simulator.ts
\* imports it from ./dice, whose text here does not hold it; modelled from the
\* specification of the success evaluator and the cases of profile.test.ts
shouldRerollSplit(roll, target, rerollFailures, rerollSuccesses) ==
  IF isSuccess(roll, target)
  THEN rerollSuccesses = "all" \/ (rerollSuccesses = "6s" /\ roll = 6)
  ELSE rerollFailures = "all" \/ (rerollFailures = "1s" /\ roll = 1)

(***************************************************************************)
(* engine/probability.ts.  A number of the statistics is an exact          *)
(* fraction num/den in lowest terms with den > 0; the rounding of the      *)
(* double-precision arithmetic is not modelled.                            *)
(***************************************************************************)
Abs(n) == IF n < 0 THEN 0 - n ELSE n

RECURSIVE GCD(_, _)
GCD(a, b) == IF b = 0 THEN a ELSE GCD(b, a % b)

\* the number n / d, d # 0
Ratio(n, d) ==
  LET g == GCD(Abs(n), Abs(d))
  IN  IF d < 0 THEN [num |-> (0 - n) \div g, den |-> (0 - d) \div g]
      ELSE [num |-> n \div g, den |-> d \div g]

\* the arithmetic of the numbers: +, -, *, / and the integer n as a number
Number(n) == Ratio(n, 1)
Plus(a, b) == Ratio(a.num * b.den + b.num * a.den, a.den * b.den)
Minus(a, b) == Ratio(a.num * b.den - b.num * a.den, a.den * b.den)
Times(a, b) == Ratio(a.num * b.num, a.den * b.den)
Over(a, b) == Ratio(a.num * b.den, a.den * b.num)

\* Math.floor and Math.ceil
Floor(a) == a.num \div a.den
Ceil(a) == 0 - ((0 - a.num) \div a.den)

\* values.reduce((acc, val) => acc + val, 0) over the numbers numbers[lo..hi],
\* summed by halves
RECURSIVE SumOf(_, _, _)
SumOf(numbers, lo, hi) ==
  IF lo > hi THEN Number(0)
  ELSE IF lo = hi THEN numbers[lo]
  ELSE Plus(SumOf(numbers, lo, (lo + hi) \div 2),
            SumOf(numbers, (lo + hi) \div 2 + 1, hi))

\* [...distribution].sort((a, b) => a - b)
SortAscending(values) == SortSeq(values, LAMBDA a, b : a < b)

\* calculateMean without the guard of the empty array: 0 / 0, not a number
calculateMeanUnguarded(values) ==
  IF Len(values) = 0 THEN [num |-> 0, den |-> 0]
  ELSE Over(SumOf([k \in 1..Len(values) |-> Number(values[k])], 1, Len(values)),
            Number(Len(values)))

\* calculateMean(values)
calculateMean(values) ==
  IF Len(values) = 0 THEN Number(0)
  ELSE Over(SumOf([k \in 1..Len(values) |-> Number(values[k])], 1, Len(values)),
            Number(Len(values)))

\* calculateVariance(values, mean)
calculateVariance(values, mean) ==
  IF Len(values) = 0 THEN Number(0)
  ELSE LET squaredDiffs == [k \in 1..Len(values) |->
                              Times(Minus(Number(values[k]), mean),
                                    Minus(Number(values[k]), mean))]
       IN  Over(SumOf(squaredDiffs, 1, Len(values)), Number(Len(values)))

\* the keys of the Map frequency in the order of their insertion: the values
\* in the order of their first occurrence
FrequencyKeys(values) ==
  LET first == {k \in 1..Len(values) : \A j \in 1..(k - 1) : values[j] # values[k]}
      order == [k \in 1..Cardinality(first) |->
                  CHOOSE n \in first : Cardinality({m \in first : m < n}) = k - 1]
  IN  [k \in 1..Len(order) |-> values[order[k]]]

\* Frequency that only marks a value as seen: frequency.set(value, 1)
FrequencySeenOnly(values) ==
  [v \in {values[k] : k \in 1..Len(values)} |-> 1]

\* the Map frequency: how often each value occurs
Frequency(values) ==
  [v \in {values[k] : k \in 1..Len(values)} |->
     Cardinality({k \in 1..Len(values) : values[k] = v})]

\* ModeFrom with "count >= maxCount": the last of the values that tie wins
RECURSIVE ModeFromLastTie(_, _, _, _, _)
ModeFromLastTie(keys, frequency, k, mode, maxCount) ==
  IF k > Len(keys) THEN mode
  ELSE IF frequency[keys[k]] >= maxCount
       THEN ModeFromLastTie(keys, frequency, k + 1, keys[k], frequency[keys[k]])
       ELSE ModeFromLastTie(keys, frequency, k + 1, mode, maxCount)

\* the loop "for (const [value, count] of frequency)" of calculateMode over
\* keys[k..], with the mode and the maxCount so far
RECURSIVE ModeFrom(_, _, _, _, _)
ModeFrom(keys, frequency, k, mode, maxCount) ==
  IF k > Len(keys) THEN mode
  ELSE IF frequency[keys[k]] > maxCount
       THEN ModeFrom(keys, frequency, k + 1, keys[k], frequency[keys[k]])
       ELSE ModeFrom(keys, frequency, k + 1, mode, maxCount)

\* calculateMode(values)
calculateMode(values) ==
  IF Len(values) = 0 THEN 0
  ELSE ModeFrom(FrequencyKeys(values), Frequency(values), 1, 0, 0)

\* calculatePercentile without the interpolation: the value at the lower index
calculatePercentileLower(sortedValues, percentile) ==
  IF Len(sortedValues) = 0 THEN Number(0)
  ELSE LET index == Times(Over(Number(percentile), Number(100)),
                          Number(Len(sortedValues) - 1))
       IN  Number(sortedValues[Floor(index) + 1])

\* calculatePercentile(sortedValues, percentile); sortedValues[lower] of the
\* code is sortedValues[lower + 1] here
calculatePercentile(sortedValues, percentile) ==
  IF Len(sortedValues) = 0 THEN Number(0)
  ELSE LET index == Times(Over(Number(percentile), Number(100)),
                          Number(Len(sortedValues) - 1))
           lower == Floor(index)
           upper == Ceil(index)
           weight == Minus(index, Number(lower))
       IN  IF lower = upper THEN Number(sortedValues[lower + 1])
           ELSE Plus(Times(Number(sortedValues[lower + 1]), Minus(Number(1), weight)),
                     Times(Number(sortedValues[upper + 1]), weight))

\* CumulativeCount that does not add up: the count of the k-th value alone
CumulativeCountOfPoint(woundValues, frequency, k) ==
  IF k = 0 THEN 0 ELSE frequency[woundValues[k]]

\* cumulativeCount after the first k wound values
RECURSIVE CumulativeCount(_, _, _)
CumulativeCount(woundValues, frequency, k) ==
  IF k = 0 THEN 0
  ELSE CumulativeCount(woundValues, frequency, k - 1) + frequency[woundValues[k]]

\* buildProbabilityDistribution(values)
buildProbabilityDistribution(values) ==
  IF Len(values) = 0 THEN <<>>
  ELSE LET frequency == Frequency(values)
           total == Len(values)
           woundValues == SortAscending(FrequencyKeys(values))
       IN  [k \in 1..Len(woundValues) |->
              [wounds |-> woundValues[k],
               count |-> frequency[woundValues[k]],
               probability |->
                 Times(Over(Number(frequency[woundValues[k]]), Number(total)),
                       Number(100)),
               cumulative |->
                 Times(Over(Number(CumulativeCount(woundValues, frequency, k)),
                            Number(total)),
                       Number(100))]]

\* calculateStatistics(distribution, totalIterations, executionTimeMs); the
\* time is left out
calculateStatistics(values, totalIterations) ==
  LET sorted == SortAscending(values)
      mean == calculateMean(values)
  IN  [distribution |-> values,
       mean |-> mean,
       median |-> calculatePercentile(sorted, 50),
       mode |-> calculateMode(values),
       variance |-> calculateVariance(values, mean),
       percentile10 |-> calculatePercentile(sorted, 10),
       percentile90 |-> calculatePercentile(sorted, 90),
       min |-> IF Len(sorted) = 0 THEN 0 ELSE sorted[1],
       max |-> IF Len(sorted) = 0 THEN 0 ELSE sorted[Len(sorted)],
       probabilityDistribution |-> buildProbabilityDistribution(values),
       totalIterations |-> totalIterations]

\* distribution.find((p) => p.wounds >= targetWounds): its index, 0 when
\* there is none
FindAtLeast(points, targetWounds) ==
  LET found == {k \in 1..Len(points) : points[k].wounds >= targetWounds}
  IN  IF found = {} THEN 0 ELSE CHOOSE k \in found : \A j \in found : k <= j

\* getProbabilityAtLeast(distribution, targetWounds)
getProbabilityAtLeast(points, targetWounds) ==
  IF Len(points) = 0 THEN Number(0)
  ELSE LET k == FindAtLeast(points, targetWounds)
       IN  IF k = 0 THEN Number(0)
           ELSE IF points[k].wounds = targetWounds
                THEN Minus(Number(100),
                           Minus(points[k].cumulative, points[k].probability))
                ELSE Minus(Number(100), points[k].cumulative)

(***************************************************************************)
(* engine/simulator.ts                                                     *)
(***************************************************************************)
\* DEFAULT_PARAMS with the cap a target of one wound rather than three
DEFAULT_PARAMS_SingleWoundTarget ==
  [rerollHitFailures |-> "none", rerollHitSuccesses |-> "none",
   rerollWoundFailures |-> "none", rerollWoundSuccesses |-> "none",
   armorSave |-> None, armorPiercing |-> 0,
   rerollArmorSaveFailures |-> "none", rerollArmorSaveSuccesses |-> "none",
   specialSave |-> None,
   rerollSpecialSaveFailures |-> "none", rerollSpecialSaveSuccesses |-> "none",
   poison |-> FALSE, poisonOn5Plus |-> FALSE, lethalStrike |-> FALSE,
   fury |-> FALSE, redFury |-> FALSE,
   multipleWounds |-> NumberExpr(1), targetMaxWounds |-> 1,
   iterations |-> 10000]

\* DEFAULT_PARAMS: the values of the optional parameters a caller omits
DEFAULT_PARAMS ==
  [rerollHitFailures |-> "none", rerollHitSuccesses |-> "none",
   rerollWoundFailures |-> "none", rerollWoundSuccesses |-> "none",
   armorSave |-> None, armorPiercing |-> 0,
   rerollArmorSaveFailures |-> "none", rerollArmorSaveSuccesses |-> "none",
   specialSave |-> None,
   rerollSpecialSaveFailures |-> "none", rerollSpecialSaveSuccesses |-> "none",
   poison |-> FALSE, poisonOn5Plus |-> FALSE, lethalStrike |-> FALSE,
   fury |-> FALSE, redFury |-> FALSE,
   multipleWounds |-> NumberExpr(1), targetMaxWounds |-> 3,
   iterations |-> 10000]

\* applyDefaults(params): { ...DEFAULT_PARAMS, ...params }
applyDefaults(p) ==
  [f \in DOMAIN DEFAULT_PARAMS \cup DOMAIN p |->
     IF f \in DOMAIN p THEN p[f] ELSE DEFAULT_PARAMS[f]]

\* HitTracker
Tracker(poison, lethal) == [isPoison |-> poison, isLethal |-> lethal]

\* what the latest step rolled: the first value of the die (unmodifiedRoll),
\* whether it was rolled again, and the value that decided the test (roll)
\* rolls: the calls of rollD6() the iteration made
NoRoll ==
  [rolled |-> FALSE, unmodifiedRoll |-> 0, rerolled |-> FALSE, roll |-> 0, rolls |-> 0]
Rolled(r1, again, r2) ==
  [rolled |-> TRUE, unmodifiedRoll |-> r1, rerolled |-> again, roll |-> r2,
   rolls |-> IF again THEN 2 ELSE 1]

\* runMagicSimulation is not running: its counters and the result of
\* simulateSingleCast before the first trial
NoCast ==
  [i |-> 0, castingFailures |-> 0, dispelSuccesses |-> 0, spellSuccesses |-> 0,
   castingTotal |-> 0, castSucceeded |-> FALSE,
   dispelRolls |-> 0, dispelTotal |-> 0, dispelSucceeded |-> FALSE]

\* no direct call is in progress; nothing has been returned yet
NoInput == [fn |-> "none"]
NoOutput == [fn |-> "none"]

VARIABLES
  params,               \* the SimulationParameters the caller passed
  pc,                   \* the position of the call of runSimulation
  distribution,         \* runSimulation: the totals pushed so far
  pass,                 \* simulateSingleSequence: 1 = the initial batch, 2 = the Red Fury batch
  numAttacks,           \* simulateAttackBatch: the attack count of the batch
  i,                    \* the number of iterations the current loop has done
  hitTrackers,          \* the hits of rollToHit
  woundTrackers,        \* the wounds of rollToWound
  unsavedAfterArmor,    \* the unsavedWounds of rollArmorSaves
  unsavedAfterSpecial,  \* the unsavedWounds of rollSpecialSaves
  totalWounds,          \* applyMultipleWounds: the running total of the batch
  woundsPerHit,         \* applyMultipleWounds: the latest value of the expression
  unsavedHits,          \* simulateSingleSequence: the survivors of the initial batch
  baseWounds,           \* simulateSingleSequence: the total of the initial batch
  die,                  \* the die of the latest step
  magic,                \* runMagicSimulation: its counters and the latest cast
  input,                \* the arguments of a direct call of an exported function
  output                \* what calculateStatistics or the direct call returned

vars == <<params, pc, distribution, pass, numAttacks, i, hitTrackers,
          woundTrackers, unsavedAfterArmor, unsavedAfterSpecial, totalWounds,
          woundsPerHit, unsavedHits, baseWounds, die, magic, input,
          output>>

\* all of it but the position, and the call of an exported function
simulatorVars == <<params, distribution, pass, numAttacks, i, hitTrackers,
                   woundTrackers, unsavedAfterArmor, unsavedAfterSpecial,
                   totalWounds, woundsPerHit, unsavedHits, baseWounds, die>>

batch == <<hitTrackers, woundTrackers, unsavedAfterArmor, unsavedAfterSpecial>>

\* fullParams of runSimulation
fullParams == applyDefaults(params)

\* batchParams whose Red Fury batch loses fury with redFury
batchParamsWithoutFury ==
  IF pass = 2 THEN [fullParams EXCEPT !.redFury = FALSE, !.fury = FALSE]
  ELSE fullParams

\* the params a batch runs with: the Red Fury batch runs with
\* paramsWithoutRedFury = { ...params, redFury: false }
batchParams == IF pass = 2 THEN [fullParams EXCEPT !.redFury = FALSE] ELSE fullParams

\* RollWithReroll that rerolls the second value too when it is eligible
RollWithRerollRepeated(target, rerollFailures, rerollSuccesses) ==
  LET eligible == {r \in rollD6 :
                     shouldRerollSplit(r, target, rerollFailures, rerollSuccesses)}
  IN  {Rolled(r1, FALSE, r1) : r1 \in rollD6 \ eligible}
      \cup {Rolled(r1, TRUE, r2) : r1 \in eligible, r2 \in rollD6 \ eligible}
      \cup {[Rolled(r1, TRUE, r3) EXCEPT !.rolls = 3] : r1 \in eligible, r3 \in rollD6}

\* one die of a roll-based phase: rollD6(), then one more rollD6() when
\* shouldRerollSplit holds for the first value
RollWithReroll(target, rerollFailures, rerollSuccesses) ==
  {Rolled(r1, FALSE, r1) :
     r1 \in {r \in rollD6 : ~shouldRerollSplit(r, target, rerollFailures, rerollSuccesses)}}
  \cup
  {Rolled(r1, TRUE, r2) :
     r1 \in {r \in rollD6 : shouldRerollSplit(r, target, rerollFailures, rerollSuccesses)},
     r2 \in rollD6}

\* isPoisonHit testing the rerolled value instead of the original roll
isPoisonHitOnFinalRoll(d, p) ==
  (p.poisonOn5Plus /\ d.roll >= 5) \/ (p.poison /\ d.roll = 6)

\* rollToHit, the body of "if (isSuccess(roll, params.toHit))": the trackers
\* one attack pushes
isPoisonHit(d, p) ==
  (p.poisonOn5Plus /\ d.unmodifiedRoll >= 5) \/ (p.poison /\ d.unmodifiedRoll = 6)

\* furyHit testing the rerolled value instead of the original roll
furyHitOnFinalRoll(d, p) ==
  IF p.fury /\ d.roll = 6 THEN <<Tracker(FALSE, FALSE)>> ELSE <<>>

furyHit(d, p) ==
  IF p.fury /\ d.unmodifiedRoll = 6 THEN <<Tracker(FALSE, FALSE)>> ELSE <<>>

\* hitsOfAttack that pushes a plain hit for an automatic threshold, whatever
\* the die shows
hitsOfAttackAutoPlain(d, p) ==
  IF p.toHit = Auto THEN <<Tracker(FALSE, FALSE)>>
  ELSE IF isSuccess(d.roll, p.toHit)
  THEN <<Tracker(isPoisonHit(d, p), FALSE)>> \o furyHit(d, p)
  ELSE <<>>

hitsOfAttack(d, p) ==
  IF isSuccess(d.roll, p.toHit)
  THEN <<Tracker(isPoisonHit(d, p), FALSE)>> \o furyHit(d, p)
  ELSE <<>>

\* autoWounds that makes poison hits roll to wound like the others
autoWoundsNever(hit) == FALSE

\* autoWounds that still needs a possible wound roll
autoWoundsUnlessImpossible(hit) == hit.isPoison /\ batchParams.toWound # None

\* rollToWound, "if (hit.isPoison)": poison hits auto-wound
autoWounds(hit) == hit.isPoison

\* woundsOfHit with the test negated: the roll that fails wounds
woundsOfHitNegated(hit, d, p) ==
  IF ~isSuccess(d.roll, p.toWound)
  THEN <<Tracker(hit.isPoison, p.lethalStrike /\ d.unmodifiedRoll = 6)>>
  ELSE <<>>

\* woundsOfHit deciding poison again, on the wound roll
woundsOfHitPoisonOnWoundRoll(hit, d, p) ==
  IF isSuccess(d.roll, p.toWound)
  THEN <<Tracker(p.poison /\ d.unmodifiedRoll = 6,
                 p.lethalStrike /\ d.unmodifiedRoll = 6)>>
  ELSE <<>>

\* rollToWound, the body of "if (isSuccess(roll, params.toWound))": the
\* trackers one rolled hit pushes
woundsOfHit(hit, d, p) ==
  IF isSuccess(d.roll, p.toWound)
  THEN <<Tracker(hit.isPoison, p.lethalStrike /\ d.unmodifiedRoll = 6)>>
  ELSE <<>>

\* rollArmorSaves, "if (wound.isLethal)": Lethal Strike bypasses all saves
skipsArmorSave(wound) == wound.isLethal

\* skipsSpecialSave of a special save that Lethal Strike does not bypass
skipsSpecialSaveNever(wound) == FALSE

\* rollSpecialSaves, "if (wound.isLethal)": Lethal Strike bypasses all saves
\* (including special)
skipsSpecialSave(wound) == wound.isLethal

\* modifiedArmorSave that leaves the armor piercing out
modifiedArmorSaveWithoutPiercing(p) == Min(7, p.armorSave.n)

\* rollArmorSaves: Math.min(7, params.armorSave + params.armorPiercing)
modifiedArmorSave(p) == Min(7, p.armorSave.n + p.armorPiercing)

\* cappedWounds without the cap
cappedWoundsUncapped(perHit, p) == perHit

\* cappedWounds capping the running total instead of the single wound
cappedRunningTotal(perHit, p) ==
  Min(totalWounds + perHit, p.targetMaxWounds) - totalWounds

\* applyMultipleWounds: Math.min(woundsPerHit, params.targetMaxWounds)
cappedWounds(perHit, p) == Min(perHit, p.targetMaxWounds)

(***************************************************************************)
(* The initial state: runSimulation is called with params.                 *)
(***************************************************************************)
NoTrackers == <<>>

ResetBatch ==
  /\ hitTrackers' = NoTrackers
  /\ woundTrackers' = NoTrackers
  /\ unsavedAfterArmor' = NoTrackers
  /\ unsavedAfterSpecial' = NoTrackers
  /\ totalWounds' = 0
  /\ woundsPerHit' = 0
  /\ i' = 0
  /\ die' = NoRoll

\* runSimulation, the loop "for (i < fullParams.iterations)" and the first
\* statement of simulateSingleSequence: parseDiceExpression(params.numAttacks)
simulateSingleSequence ==
  /\ pc = "loop"
  /\ Len(distribution) < fullParams.iterations
  /\ \E o \in parseDiceExpression(fullParams.numAttacks) :
       IF o.throws
       THEN /\ pc' = "error"
            /\ UNCHANGED <<numAttacks, pass, unsavedHits, baseWounds, batch,
                           totalWounds, woundsPerHit, i, die>>
       ELSE /\ pc' = "hit"
            /\ numAttacks' = o.value
            /\ pass' = 1
            /\ unsavedHits' = 0
            /\ baseWounds' = 0
            /\ ResetBatch
  /\ UNCHANGED <<magic, input, output, params, distribution>>

\* runSimulationReturn with the loop one trial short: i < iterations - 1
runSimulationReturnOneShort ==
  /\ pc = "loop"
  /\ ~(Len(distribution) < fullParams.iterations - 1)
  /\ pc' = "returned"
  /\ UNCHANGED <<magic, input, output, params, distribution, pass, numAttacks, i, batch,
                 totalWounds, woundsPerHit, unsavedHits, baseWounds, die>>

\* runSimulation: the loop is over, return distribution
runSimulationReturn ==
  /\ pc = "loop"
  /\ ~(Len(distribution) < fullParams.iterations)
  /\ pc' = "returned"
  /\ UNCHANGED <<magic, input, output, params, distribution, pass, numAttacks, i,
                 batch, totalWounds, woundsPerHit, unsavedHits, baseWounds, die>>

\* runSimulationWithStats: calculateStatistics(distribution,
\* fullParams.iterations, executionTimeMs) of the array runSimulation returned
runSimulationWithStats ==
  /\ pc = "returned"
  /\ output' = [fn |-> "runSimulationWithStats",
                results |-> calculateStatistics(distribution, fullParams.iterations)]
  /\ pc' = "stats"
  /\ UNCHANGED <<magic, input, simulatorVars>>

\* rollToHit: one iteration of the loop over the attacks
rollToHit ==
  /\ pc = "hit"
  /\ i < numAttacks
  /\ \E d \in RollWithReroll(batchParams.toHit, batchParams.rerollHitFailures,
                             batchParams.rerollHitSuccesses) :
       /\ die' = d
       /\ hitTrackers' = hitTrackers \o hitsOfAttack(d, batchParams)
  /\ i' = i + 1
  /\ UNCHANGED <<magic, input, output, params, pc, distribution, pass, numAttacks,
                 woundTrackers, unsavedAfterArmor, unsavedAfterSpecial,
                 totalWounds, woundsPerHit, unsavedHits, baseWounds>>

\* rollToHit: return hits
rollToHitReturn ==
  /\ pc = "hit"
  /\ ~(i < numAttacks)
  /\ pc' = "wound"
  /\ i' = 0
  /\ die' = NoRoll
  /\ UNCHANGED <<magic, input, output, params, distribution, pass, numAttacks, batch,
                 totalWounds, woundsPerHit, unsavedHits, baseWounds>>

\* rollToWound: one iteration of the loop over hitTrackers
rollToWound ==
  /\ pc = "wound"
  /\ i < Len(hitTrackers)
  /\ LET hit == hitTrackers[i + 1]
     IN  IF autoWounds(hit)
         THEN /\ woundTrackers' = Append(woundTrackers, hit)
              /\ die' = NoRoll
         ELSE \E d \in RollWithReroll(batchParams.toWound,
                                      batchParams.rerollWoundFailures,
                                      batchParams.rerollWoundSuccesses) :
                /\ die' = d
                /\ woundTrackers' = woundTrackers \o woundsOfHit(hit, d, batchParams)
  /\ i' = i + 1
  /\ UNCHANGED <<magic, input, output, params, pc, distribution, pass, numAttacks,
                 hitTrackers, unsavedAfterArmor, unsavedAfterSpecial,
                 totalWounds, woundsPerHit, unsavedHits, baseWounds>>

\* rollToWound: return wounds
rollToWoundReturn ==
  /\ pc = "wound"
  /\ ~(i < Len(hitTrackers))
  /\ pc' = "armor"
  /\ i' = 0
  /\ die' = NoRoll
  /\ UNCHANGED <<magic, input, output, params, distribution, pass, numAttacks, batch,
                 totalWounds, woundsPerHit, unsavedHits, baseWounds>>

\* rollArmorSaves: one iteration of the loop over woundTrackers
rollArmorSaves ==
  /\ pc = "armor"
  /\ i < Len(woundTrackers)
  /\ LET wound == woundTrackers[i + 1]
         p == batchParams
     IN  IF skipsArmorSave(wound)
         THEN /\ unsavedAfterArmor' = Append(unsavedAfterArmor, wound)
              /\ die' = NoRoll
         ELSE IF p.armorSave = None
         THEN /\ unsavedAfterArmor' = Append(unsavedAfterArmor, wound)
              /\ die' = NoRoll
         ELSE IF p.armorSave = Auto
         THEN /\ unsavedAfterArmor' = unsavedAfterArmor
              /\ die' = NoRoll
         ELSE IF modifiedArmorSave(p) > 6
         THEN /\ unsavedAfterArmor' = Append(unsavedAfterArmor, wound)
              /\ die' = NoRoll
         ELSE \E d \in RollWithReroll(Target(modifiedArmorSave(p)),
                                      p.rerollArmorSaveFailures,
                                      p.rerollArmorSaveSuccesses) :
                /\ die' = d
                /\ unsavedAfterArmor' =
                     IF ~isSuccess(d.roll, Target(modifiedArmorSave(p)))
                     THEN Append(unsavedAfterArmor, wound)
                     ELSE unsavedAfterArmor
  /\ i' = i + 1
  /\ UNCHANGED <<magic, input, output, params, pc, distribution, pass, numAttacks,
                 hitTrackers, woundTrackers, unsavedAfterSpecial, totalWounds,
                 woundsPerHit, unsavedHits, baseWounds>>

\* rollArmorSaves: return unsavedWounds
rollArmorSavesReturn ==
  /\ pc = "armor"
  /\ ~(i < Len(woundTrackers))
  /\ pc' = "special"
  /\ i' = 0
  /\ die' = NoRoll
  /\ UNCHANGED <<magic, input, output, params, distribution, pass, numAttacks, batch,
                 totalWounds, woundsPerHit, unsavedHits, baseWounds>>

\* rollSpecialSaves: one iteration of the loop over the wounds that failed
\* their armor save
rollSpecialSaves ==
  /\ pc = "special"
  /\ i < Len(unsavedAfterArmor)
  /\ LET wound == unsavedAfterArmor[i + 1]
         p == batchParams
     IN  IF skipsSpecialSave(wound)
         THEN /\ unsavedAfterSpecial' = Append(unsavedAfterSpecial, wound)
              /\ die' = NoRoll
         ELSE IF p.specialSave = None
         THEN /\ unsavedAfterSpecial' = Append(unsavedAfterSpecial, wound)
              /\ die' = NoRoll
         ELSE IF p.specialSave = Auto
         THEN /\ unsavedAfterSpecial' = unsavedAfterSpecial
              /\ die' = NoRoll
         ELSE \E d \in RollWithReroll(p.specialSave,
                                      p.rerollSpecialSaveFailures,
                                      p.rerollSpecialSaveSuccesses) :
                /\ die' = d
                /\ unsavedAfterSpecial' =
                     IF ~isSuccess(d.roll, p.specialSave)
                     THEN Append(unsavedAfterSpecial, wound)
                     ELSE unsavedAfterSpecial
  /\ i' = i + 1
  /\ UNCHANGED <<magic, input, output, params, pc, distribution, pass, numAttacks,
                 hitTrackers, woundTrackers, unsavedAfterArmor, totalWounds,
                 woundsPerHit, unsavedHits, baseWounds>>

\* rollSpecialSaves: return unsavedWounds
rollSpecialSavesReturn ==
  /\ pc = "special"
  /\ ~(i < Len(unsavedAfterArmor))
  /\ pc' = "multiple"
  /\ i' = 0
  /\ die' = NoRoll
  /\ UNCHANGED <<magic, input, output, params, distribution, pass, numAttacks, batch,
                 totalWounds, woundsPerHit, unsavedHits, baseWounds>>

\* applyMultipleWounds: one iteration of the loop over the wounds that
\* failed both saves
applyMultipleWounds ==
  /\ pc = "multiple"
  /\ i < Len(unsavedAfterSpecial)
  /\ \E o \in parseDiceExpression(batchParams.multipleWounds) :
       IF o.throws
       THEN /\ pc' = "error"
            /\ UNCHANGED <<woundsPerHit, totalWounds, i>>
       ELSE /\ pc' = pc
            /\ woundsPerHit' = o.value
            /\ totalWounds' = totalWounds + cappedWounds(o.value, batchParams)
            /\ i' = i + 1
  /\ UNCHANGED <<magic, input, output, params, distribution, pass, numAttacks, batch,
                 unsavedHits, baseWounds, die>>

\* simulateSingleSequence without Red Fury: the batch returns and its
\* totalWounds is the trial's total, which runSimulation pushes
returnTotalWounds ==
  /\ pc = "multiple"
  /\ ~(i < Len(unsavedAfterSpecial))
  /\ pass = 1
  /\ ~fullParams.redFury
  /\ distribution' = Append(distribution, totalWounds)
  /\ pc' = "loop"
  /\ UNCHANGED <<magic, input, output, params, pass, numAttacks, i, batch,
                 totalWounds, woundsPerHit, unsavedHits, baseWounds, die>>

\* simulateSingleSequence with Red Fury, "if (unsavedHits === 0) return
\* baseWounds"
returnBaseWounds ==
  /\ pc = "multiple"
  /\ ~(i < Len(unsavedAfterSpecial))
  /\ pass = 1
  /\ fullParams.redFury
  /\ Len(unsavedAfterSpecial) = 0
  /\ unsavedHits' = Len(unsavedAfterSpecial)
  /\ baseWounds' = totalWounds
  /\ distribution' = Append(distribution, totalWounds)
  /\ pc' = "loop"
  /\ UNCHANGED <<magic, input, output, params, pass, numAttacks, i, batch,
                 totalWounds, woundsPerHit, die>>

\* simulateExtraAttacks taking the damage of the first batch, not the number
\* of its survivors, as the count of extra attacks
simulateExtraAttacksByDamage ==
  /\ pc = "multiple"
  /\ ~(i < Len(unsavedAfterSpecial))
  /\ pass = 1
  /\ fullParams.redFury
  /\ Len(unsavedAfterSpecial) # 0
  /\ unsavedHits' = Len(unsavedAfterSpecial)
  /\ baseWounds' = totalWounds
  /\ numAttacks' = totalWounds
  /\ pass' = 2
  /\ pc' = "hit"
  /\ ResetBatch
  /\ UNCHANGED <<magic, input, output, params, distribution>>

\* simulateSingleSequence with Red Fury: the second batch,
\* simulateAttackBatch(unsavedHits, paramsWithoutRedFury)
simulateExtraAttacks ==
  /\ pc = "multiple"
  /\ ~(i < Len(unsavedAfterSpecial))
  /\ pass = 1
  /\ fullParams.redFury
  /\ Len(unsavedAfterSpecial) # 0
  /\ unsavedHits' = Len(unsavedAfterSpecial)
  /\ baseWounds' = totalWounds
  /\ numAttacks' = Len(unsavedAfterSpecial)
  /\ pass' = 2
  /\ pc' = "hit"
  /\ ResetBatch
  /\ UNCHANGED <<magic, input, output, params, distribution>>

\* simulateSingleSequence with Red Fury: return baseWounds + extraWounds
returnWithExtraWounds ==
  /\ pc = "multiple"
  /\ ~(i < Len(unsavedAfterSpecial))
  /\ pass = 2
  /\ distribution' = Append(distribution, baseWounds + totalWounds)
  /\ pc' = "loop"
  /\ UNCHANGED <<magic, input, output, params, pass, numAttacks, i, batch,
                 totalWounds, woundsPerHit, unsavedHits, baseWounds, die>>

(***************************************************************************)
(* The parameter sets the runs are drawn from.  Each family varies the     *)
(* parameters one phase reads over all their values and draws the others   *)
(* from a few; the parameters a family does not name are omitted, so       *)
(* applyDefaults fills them in.                                            *)
(***************************************************************************)
FixedAttacks == {NumberExpr(n) : n \in 0..MaxAttacks}
DiceAttacks ==
  {StringExpr(<<"2">>), StringExpr(<<"d", "3", "-", "2">>),
   StringExpr(<<"D", "3", " ", "-", "1">>)}
WoundExpressions ==
  {NumberExpr(1), NumberExpr(2), NumberExpr(10), StringExpr(<<"d", "3">>),
   StringExpr(<<"d", "6">>), StringExpr(<<"d", "3", "+", "1">>),
   StringExpr(<<"d", "3", "-", "2">>)}
MaxWoundsValues == {1, 3, 10}
ArmorPiercingValues == {0, 1, 6}

HitFamily ==
  {[numAttacks |-> NumberExpr(MaxAttacks), toHit |-> h, toWound |-> Target(4),
    rerollHitFailures |-> rf, rerollHitSuccesses |-> rs,
    poison |-> po, poisonOn5Plus |-> p5, fury |-> fu, iterations |-> 1] :
     h \in HitValue, rf \in FailureRerollType, rs \in SuccessRerollType,
     po \in BOOLEAN, p5 \in BOOLEAN, fu \in BOOLEAN}

\* the wound roll of two hits
WoundFamily ==
  {[numAttacks |-> NumberExpr(2), toHit |-> Auto, toWound |-> w,
    rerollWoundFailures |-> rf, rerollWoundSuccesses |-> rs,
    poison |-> po, lethalStrike |-> le, armorSave |-> Target(4),
    iterations |-> 1] :
     w \in HitValue, rf \in FailureRerollType, rs \in SuccessRerollType,
     po \in BOOLEAN, le \in BOOLEAN}

\* the armor save of two wounds
ArmorFamily ==
  {[numAttacks |-> NumberExpr(2), toHit |-> Auto, toWound |-> w,
    armorSave |-> a, armorPiercing |-> ap,
    rerollArmorSaveFailures |-> rf, rerollArmorSaveSuccesses |-> rs,
    lethalStrike |-> le, iterations |-> 1] :
     w \in {Auto, Target(4)}, a \in HitValue, ap \in ArmorPiercingValues,
     rf \in FailureRerollType, rs \in SuccessRerollType, le \in BOOLEAN}

\* the special save of two wounds
SpecialFamily ==
  {[numAttacks |-> NumberExpr(2), toHit |-> Auto, toWound |-> w,
    armorSave |-> a, specialSave |-> sp,
    rerollSpecialSaveFailures |-> rf, rerollSpecialSaveSuccesses |-> rs,
    lethalStrike |-> le, iterations |-> 1] :
     w \in {Auto, Target(4)}, a \in {None, Target(4)}, sp \in HitValue,
     rf \in FailureRerollType, rs \in SuccessRerollType, le \in BOOLEAN}

\* multiple wounds with the cap given
CappedFamily ==
  {[numAttacks |-> n, toHit |-> Auto, toWound |-> Auto, multipleWounds |-> mw,
    targetMaxWounds |-> cap, fury |-> fu, iterations |-> 1] :
     n \in {NumberExpr(1), NumberExpr(MaxAttacks)}, mw \in WoundExpressions,
     cap \in MaxWoundsValues, fu \in BOOLEAN}

\* multiple wounds with the cap omitted
UncappedFamily ==
  {[numAttacks |-> n, toHit |-> Auto, toWound |-> Auto, multipleWounds |-> mw,
    fury |-> fu, iterations |-> 1] :
     n \in {NumberExpr(1), NumberExpr(MaxAttacks)}, mw \in WoundExpressions,
     fu \in BOOLEAN}

\* the attack count as a number and as a dice expression
AttacksFamily ==
  {[numAttacks |-> n, toHit |-> h, toWound |-> Auto, multipleWounds |-> mw,
    redFury |-> re, iterations |-> 1] :
     n \in FixedAttacks \cup DiceAttacks, h \in {Auto, Target(4)},
     mw \in {NumberExpr(1), StringExpr(<<"d", "3", "-", "2">>)},
     re \in BOOLEAN}

\* Red Fury: one attack, so at most two survivors and two extra attacks
RedFuryFamily ==
  {[numAttacks |-> NumberExpr(1), toHit |-> h, toWound |-> w,
    specialSave |-> sp, lethalStrike |-> le,
    fury |-> fu, redFury |-> TRUE, multipleWounds |-> mw,
    targetMaxWounds |-> 10, iterations |-> 1] :
     h \in {Auto, Target(4)}, w \in {Auto, Target(4)},
     sp \in {None, Target(4)}, le \in BOOLEAN, fu \in BOOLEAN,
     mw \in {NumberExpr(1), StringExpr(<<"d", "3">>)}}

\* a hit threshold of "none" with the other parameters varied together
NoHitFamily ==
  {[numAttacks |-> n, toHit |-> None, toWound |-> w,
    rerollHitFailures |-> rf, rerollHitSuccesses |-> rs,
    armorSave |-> a, specialSave |-> sp, poison |-> po, poisonOn5Plus |-> p5,
    lethalStrike |-> le, fury |-> fu, redFury |-> re, multipleWounds |-> mw,
    iterations |-> 1] :
     n \in {NumberExpr(1), StringExpr(<<"d", "3", "-", "2">>)},
     w \in {Auto, None}, rf \in {"none", "all"}, rs \in {"none", "all"},
     a \in {None, Auto}, sp \in {None, Auto}, po \in BOOLEAN, p5 \in BOOLEAN,
     le \in BOOLEAN, fu \in BOOLEAN, re \in BOOLEAN,
     mw \in {NumberExpr(1), StringExpr(<<"d", "6">>)}}

\* only the required parameters and the trial count
MinimalFamily ==
  {[numAttacks |-> n, toHit |-> h, toWound |-> w, iterations |-> it] :
     n \in FixedAttacks, h \in {Auto, Target(4)}, w \in {Auto, Target(4)},
     it \in 0..MaxIterations}

\* expressions parseDiceExpression rejects: an unsupported die, a sign
\* without digits
MalformedExpressions ==
  {StringExpr(<<"d", "8">>), StringExpr(<<"d", "6", "+">>)}

\* a malformed attack count or a malformed multiple-wounds expression
MalformedFamily ==
  {p \in
     {[numAttacks |-> n, toHit |-> h, toWound |-> Auto, multipleWounds |-> mw,
       redFury |-> re, iterations |-> it] :
        n \in {NumberExpr(0), NumberExpr(1)} \cup MalformedExpressions,
        h \in {Auto, None, Target(4)},
        mw \in {NumberExpr(1)} \cup MalformedExpressions,
        re \in BOOLEAN, it \in 1..MaxIterations} :
     p.numAttacks \in MalformedExpressions \/ p.multipleWounds \in MalformedExpressions}

ParameterSets ==
  HitFamily \cup WoundFamily \cup ArmorFamily \cup SpecialFamily
  \cup CappedFamily \cup UncappedFamily \cup AttacksFamily
  \cup RedFuryFamily \cup NoHitFamily
  \cup MinimalFamily \cup MalformedFamily

Init ==
  /\ params \in ParameterSets
  /\ pc = "loop"
  /\ distribution = <<>>
  /\ pass = 1
  /\ numAttacks = 0
  /\ i = 0
  /\ hitTrackers = NoTrackers
  /\ woundTrackers = NoTrackers
  /\ unsavedAfterArmor = NoTrackers
  /\ unsavedAfterSpecial = NoTrackers
  /\ totalWounds = 0
  /\ woundsPerHit = 0
  /\ unsavedHits = 0
  /\ baseWounds = 0
  /\ die = NoRoll
  /\ magic = NoCast
  /\ input = NoInput
  /\ output = NoOutput

Next ==
  \/ simulateSingleSequence
  \/ runSimulationReturn
  \/ rollToHit
  \/ rollToHitReturn
  \/ rollToWound
  \/ rollToWoundReturn
  \/ rollArmorSaves
  \/ rollArmorSavesReturn
  \/ rollSpecialSaves
  \/ rollSpecialSavesReturn
  \/ applyMultipleWounds
  \/ returnTotalWounds
  \/ returnBaseWounds
  \/ simulateExtraAttacks
  \/ returnWithExtraWounds
  \/ runSimulationWithStats

Spec == Init /\ [][Next]_vars

\* the trial count given and left out: without attacks a trial has one
\* outcome, so the 10000 trials of the default are run one after the other
TrialsFamily ==
  {[numAttacks |-> NumberExpr(n), toHit |-> Target(4), toWound |-> Auto,
    redFury |-> re, iterations |-> it] :
     n \in 0..1, re \in BOOLEAN, it \in 0..MaxIterations}
  \cup {[numAttacks |-> NumberExpr(0), toHit |-> Target(4), toWound |-> Target(4)]}

\* runSimulation and runSimulationWithStats called with these parameters
TrialsInit ==
  /\ params \in TrialsFamily
  /\ pc = "loop"
  /\ distribution = <<>>
  /\ pass = 1
  /\ numAttacks = 0
  /\ i = 0
  /\ hitTrackers = NoTrackers
  /\ woundTrackers = NoTrackers
  /\ unsavedAfterArmor = NoTrackers
  /\ unsavedAfterSpecial = NoTrackers
  /\ totalWounds = 0
  /\ woundsPerHit = 0
  /\ unsavedHits = 0
  /\ baseWounds = 0
  /\ die = NoRoll
  /\ magic = NoCast
  /\ input = NoInput
  /\ output = NoOutput

TrialsSpec == TrialsInit /\ [][Next]_vars

\* Red Fury on and off with the special rules, a reroll, an armor save and
\* the per-wound cap, for no attack and for two attacks
PassesFamily ==
  {[numAttacks |-> NumberExpr(n), toHit |-> Target(4), toWound |-> Auto,
    rerollHitFailures |-> "all", armorSave |-> Target(4), poison |-> po,
    lethalStrike |-> le, fury |-> fu, redFury |-> re,
    multipleWounds |-> NumberExpr(10), iterations |-> 1] :
     n \in {0, 2}, po \in BOOLEAN, le \in BOOLEAN, fu \in BOOLEAN,
     re \in BOOLEAN}

PassesInit ==
  /\ params \in PassesFamily
  /\ pc = "loop"
  /\ distribution = <<>>
  /\ pass = 1
  /\ numAttacks = 0
  /\ i = 0
  /\ hitTrackers = NoTrackers
  /\ woundTrackers = NoTrackers
  /\ unsavedAfterArmor = NoTrackers
  /\ unsavedAfterSpecial = NoTrackers
  /\ totalWounds = 0
  /\ woundsPerHit = 0
  /\ unsavedHits = 0
  /\ baseWounds = 0
  /\ die = NoRoll
  /\ magic = NoCast
  /\ input = NoInput
  /\ output = NoOutput

PassesSpec == PassesInit /\ [][Next]_vars

\* one attack through all four phases without a reroll but one, with the
\* special rules and Red Fury, and a damage per wound that is 2 or negative
\* on average
PolicyFamily ==
  {[numAttacks |-> NumberExpr(1), toHit |-> h, toWound |-> Target(4),
    armorSave |-> a, specialSave |-> Target(5),
    poison |-> po, lethalStrike |-> le, fury |-> fu, redFury |-> re,
    multipleWounds |-> mw, iterations |-> 1] :
     h \in {Auto, Target(4)}, a \in {None, Target(4)},
     po \in BOOLEAN, le \in BOOLEAN, fu \in BOOLEAN, re \in BOOLEAN,
     mw \in {NumberExpr(2), StringExpr(<<"d", "3", "-", "3">>)}}

PolicyInit ==
  /\ params \in PolicyFamily
  /\ pc = "loop"
  /\ distribution = <<>>
  /\ pass = 1
  /\ numAttacks = 0
  /\ i = 0
  /\ hitTrackers = NoTrackers
  /\ woundTrackers = NoTrackers
  /\ unsavedAfterArmor = NoTrackers
  /\ unsavedAfterSpecial = NoTrackers
  /\ totalWounds = 0
  /\ woundsPerHit = 0
  /\ unsavedHits = 0
  /\ baseWounds = 0
  /\ die = NoRoll
  /\ magic = NoCast
  /\ input = NoInput
  /\ output = NoOutput

PolicySpec == PolicyInit /\ [][Next]_vars

(***************************************************************************)
(* Direct calls of the functions engine/index.ts exports: the caller hands *)
(* the arguments over and gets the result, no simulation is running.       *)
(***************************************************************************)
\* the parameters of a simulation that is never started
NoSimulation ==
  [numAttacks |-> NumberExpr(0), toHit |-> None, toWound |-> None, iterations |-> 0]

DirectCall(args) ==
  /\ params = NoSimulation
  /\ pc = "call"
  /\ distribution = <<>>
  /\ pass = 1
  /\ numAttacks = 0
  /\ i = 0
  /\ hitTrackers = NoTrackers
  /\ woundTrackers = NoTrackers
  /\ unsavedAfterArmor = NoTrackers
  /\ unsavedAfterSpecial = NoTrackers
  /\ totalWounds = 0
  /\ woundsPerHit = 0
  /\ unsavedHits = 0
  /\ baseWounds = 0
  /\ die = NoRoll
  /\ magic = NoCast
  /\ input = args
  /\ output = NoOutput

\* shouldRerollSplit(roll, target, failurePolicy, successPolicy) called with
\* every roll of a D6, every threshold and every pair of policies
RerollInit ==
  \E roll \in rollD6, target \in HitValue,
     rerollFailures \in FailureRerollType, rerollSuccesses \in SuccessRerollType :
    DirectCall([fn |-> "shouldRerollSplit", roll |-> roll, target |-> target,
                rerollFailures |-> rerollFailures,
                rerollSuccesses |-> rerollSuccesses])

callShouldRerollSplit ==
  /\ pc = "call"
  /\ input.fn = "shouldRerollSplit"
  /\ output' = [fn |-> "shouldRerollSplit",
                value |-> shouldRerollSplit(input.roll, input.target,
                                            input.rerollFailures,
                                            input.rerollSuccesses)]
  /\ pc' = "done"
  /\ UNCHANGED <<magic, input, simulatorVars>>

RerollNext == callShouldRerollSplit

RerollSpec == RerollInit /\ [][RerollNext]_vars

\* the longest of the expressions that are tried character by character
MaxExprLen == 3

\* the characters of the expressions: digits, the die letter in both cases,
\* the two signs, whitespace and a letter no expression has
Alphabet == {"0", "3", "6", "d", "D", "+", "-", " ", "a"}

\* the expressions of dice.test.ts, with a modifier and a count
SampleExpressions ==
  {<<"d", "6", "+", "3">>, <<"2", "d", "6", "-", "2">>, <<"3", "d", "3", "+", "1">>,
   <<"2", "d", "6", "+", "3">>, <<" ", " ", "d", "6", " ", " ">>,
   <<"d", "6", "-", "3">>, <<"D", "3", " ", "-", "1">>, <<"1", "0">>,
   <<"2", "d", "1", "0">>, <<"d", "8">>, <<"a", "b", "c">>,
   <<"i", "n", "v", "a", "l", "i", "d">>}

Expressions ==
  {StringExpr(s) : s \in UNION {[1..n -> Alphabet] : n \in 0..MaxExprLen}}
  \cup {StringExpr(s) : s \in SampleExpressions}
  \cup {NumberExpr(n) : n \in 0..MaxAttacks}

\* parseDiceExpression(expression) called with every expression
ParserInit ==
  \E expression \in Expressions :
    DirectCall([fn |-> "parseDiceExpression", expression |-> expression])

callParseDiceExpression ==
  /\ pc = "call"
  /\ input.fn = "parseDiceExpression"
  /\ \E o \in parseDiceExpression(input.expression) :
       output' = [fn |-> "parseDiceExpression", result |-> o]
  /\ pc' = "done"
  /\ UNCHANGED <<magic, input, simulatorVars>>

ParserNext == callParseDiceExpression

ParserSpec == ParserInit /\ [][ParserNext]_vars

\* the largest total and the longest array of totals a caller passes
MaxTotal == 3
MaxTrials == 4

\* the arrays of totals; a total can be negative
TotalsArrays == UNION {[1..n -> (0 - 1)..MaxTotal] : n \in 0..MaxTrials}

\* calculateStatistics(distribution, distribution.length, executionTimeMs)
\* called with every array of totals
StatsInit ==
  \E values \in TotalsArrays :
    DirectCall([fn |-> "calculateStatistics", distribution |-> values,
                totalIterations |-> Len(values)])

callCalculateStatistics ==
  /\ pc = "call"
  /\ input.fn = "calculateStatistics"
  /\ output' = [fn |-> "calculateStatistics",
                results |-> calculateStatistics(input.distribution,
                                                input.totalIterations)]
  /\ pc' = "done"
  /\ UNCHANGED <<magic, input, simulatorVars>>

\* getProbabilityAtLeast(results.probabilityDistribution, targetWounds) with
\* the results of the call before
callGetProbabilityAtLeast ==
  /\ pc = "done"
  /\ output.fn = "calculateStatistics"
  /\ \E targetWounds \in (0 - 2)..(MaxTotal + 1) :
       output' = [fn |-> "getProbabilityAtLeast",
                  targetWounds |-> targetWounds,
                  value |-> getProbabilityAtLeast(
                              output.results.probabilityDistribution, targetWounds)]
  /\ UNCHANGED <<pc, magic, input, simulatorVars>>

StatsNext == callCalculateStatistics \/ callGetProbabilityAtLeast

StatsSpec == StatsInit /\ [][StatsNext]_vars

(***************************************************************************)
(* engine/magic-simulator.ts: runMagicSimulation, called directly.  The    *)
(* call is in input, its counters and the latest cast are in magic.        *)
(***************************************************************************)
\* 0 / 0: not a number
NotANumber == [num |-> 0, den |-> 0]

\* DEFAULT_MAGIC_PARAMS
DEFAULT_MAGIC_PARAMS == [iterations |-> 50000, isBoundSpell |-> FALSE]

\* { ...DEFAULT_MAGIC_PARAMS, ...params }
fullMagicParams ==
  [f \in DOMAIN DEFAULT_MAGIC_PARAMS \cup DOMAIN input.params |->
     IF f \in DOMAIN input.params THEN input.params[f] ELSE DEFAULT_MAGIC_PARAMS[f]]

\* rollCastingDice(count, isBoundSpell) and rollDispelDice(count): imported
\* from ./dice, whose text here does not hold them; each rolls count dice as
\* the rollDice of the earlier magic-simulator.ts does, and of the casting
\* dice of a bound spell the first is a D6 and the rest are D3
rollCastingDice(count, isBoundSpell) ==
  {rolls \in [1..count -> rollD6] :
     isBoundSpell => \A k \in 2..count : rolls[k] \in rollD3}
rollDispelDice(count) == [1..count -> rollD6]

\* rolls.reduce((sum, roll) => sum + roll, 0)
RECURSIVE SumRolls(_)
SumRolls(rolls) == IF rolls = <<>> THEN 0 ELSE Head(rolls) + SumRolls(Tail(rolls))

\* applyRerollCasting(rolls, rerollType, isBoundSpell): the arrays it can
\* return
applyRerollCasting(rolls, rerollType, isBoundSpell) ==
  IF rerollType = "none" THEN {rolls}
  ELSE {rerolled \in [1..Len(rolls) -> rollD6] :
          \A k \in 1..Len(rolls) :
            IF rerollType = "all" \/ (rerollType = "1s" /\ rolls[k] = 1)
            THEN isBoundSpell /\ k > 1 => rerolled[k] \in rollD3
            ELSE rerolled[k] = rolls[k]}

\* applyRerollDispel(rolls, rerollType)
applyRerollDispel(rolls, rerollType) ==
  IF rerollType = "none" THEN {rolls} ELSE [1..Len(rolls) -> rollD6]

\* castingTotal of the rolls
castingTotalOf(rolls, p) == SumRolls(rolls) + p.castingModifier - p.magicResistance

\* spellSucceeded true also when the spell was dispelled
spellSucceededAlways(dispelSucceeded) == TRUE

\* simulateSingleCast: spellSucceeded: !dispelSucceeded
spellSucceeded(dispelSucceeded) == ~dispelSucceeded

\* (count / fullParams.iterations) * 100
Percent(count, iterations) ==
  IF iterations = 0 THEN NotANumber
  ELSE Times(Over(Number(count), Number(iterations)), Number(100))

\* runMagicSimulation(params): the counters are set to 0
runMagicSimulation ==
  /\ pc = "call"
  /\ input.fn = "runMagicSimulation"
  /\ magic' = NoCast
  /\ pc' = "trials"
  /\ UNCHANGED <<input, output, simulatorVars>>

\* the loop "for (i < fullParams.iterations)" and simulateSingleCast up to
\* its first return: the casting dice, rolled again when the cast failed
castSpell ==
  /\ pc = "trials"
  /\ magic.i < fullMagicParams.iterations
  /\ LET p == fullMagicParams
     IN  \E castingRolls \in rollCastingDice(p.castingDice, p.isBoundSpell) :
           IF castingTotalOf(castingRolls, p) >= p.castingValue
           THEN magic' = [magic EXCEPT !.castingTotal = castingTotalOf(castingRolls, p),
                                       !.castSucceeded = TRUE,
                                       !.dispelRolls = 0, !.dispelTotal = 0,
                                       !.dispelSucceeded = FALSE]
           ELSE \E rerolled \in applyRerollCasting(castingRolls, p.rerollCasting,
                                                   p.isBoundSpell) :
                  magic' = [magic EXCEPT
                              !.castingTotal = castingTotalOf(rerolled, p),
                              !.castSucceeded = castingTotalOf(rerolled, p) >= p.castingValue,
                              !.dispelRolls = 0, !.dispelTotal = 0,
                              !.dispelSucceeded = FALSE]
  /\ pc' = "cast"
  /\ UNCHANGED <<input, output, simulatorVars>>

\* simulateSingleCast, "if (!castSucceeded) return": no dispel dice, and
\* runMagicSimulation counts a casting failure
castFailed ==
  /\ pc = "cast"
  /\ ~magic.castSucceeded
  /\ magic' = [magic EXCEPT !.castingFailures = @ + 1, !.i = @ + 1]
  /\ pc' = "trials"
  /\ UNCHANGED <<input, output, simulatorVars>>

\* simulateSingleCast after a cast that succeeded: the dispel dice, rolled
\* again when the dispel failed, and the counting of runMagicSimulation
dispelSpell ==
  /\ pc = "cast"
  /\ magic.castSucceeded
  /\ LET p == fullMagicParams
     IN  \E dispelRolls \in rollDispelDice(p.dispelDice) :
           IF SumRolls(dispelRolls) + p.dispelModifier >= magic.castingTotal
           THEN magic' = [magic EXCEPT
                            !.dispelRolls = p.dispelDice,
                            !.dispelTotal = SumRolls(dispelRolls) + p.dispelModifier,
                            !.dispelSucceeded = TRUE,
                            !.dispelSuccesses = @ + 1,
                            !.spellSuccesses = IF spellSucceeded(TRUE) THEN @ + 1 ELSE @,
                            !.i = @ + 1]
           ELSE \E rerolled \in applyRerollDispel(dispelRolls, p.rerollDispel) :
                  LET dispelTotal == SumRolls(rerolled) + p.dispelModifier
                      dispelSucceeded == dispelTotal >= magic.castingTotal
                  IN  magic' = [magic EXCEPT
                                  !.dispelRolls =
                                    IF p.rerollDispel = "none" THEN p.dispelDice
                                    ELSE 2 * p.dispelDice,
                                  !.dispelTotal = dispelTotal,
                                  !.dispelSucceeded = dispelSucceeded,
                                  !.dispelSuccesses = IF dispelSucceeded THEN @ + 1 ELSE @,
                                  !.spellSuccesses =
                                    IF spellSucceeded(dispelSucceeded) THEN @ + 1 ELSE @,
                                  !.i = @ + 1]
  /\ pc' = "trials"
  /\ UNCHANGED <<input, output, simulatorVars>>

\* runMagicSimulation: the loop is over, the percentages are returned
runMagicSimulationReturn ==
  /\ pc = "trials"
  /\ ~(magic.i < fullMagicParams.iterations)
  /\ output' =
       [fn |-> "runMagicSimulation",
        results |->
          [castingFailPercent |->
             Percent(magic.castingFailures, fullMagicParams.iterations),
           dispelSuccessPercent |->
             Percent(magic.dispelSuccesses, fullMagicParams.iterations),
           spellSuccessPercent |->
             Percent(magic.spellSuccesses, fullMagicParams.iterations),
           iterations |-> fullMagicParams.iterations]]
  /\ pc' = "done"
  /\ UNCHANGED <<magic, input, simulatorVars>>

\* castings of two dice against one or two dispel dice for no trial, one
\* and two, isBoundSpell given and omitted
MagicFamily ==
  LET given ==
        [castingDice : {2}, dispelDice : {1, 2}, castingValue : {5, 11},
         castingModifier : {1}, dispelModifier : {0}, magicResistance : {0, 1},
         rerollCasting : {"none", "1s", "all"}, rerollDispel : {"none", "all"},
         iterations : 0..2]
  IN  given \cup {[f \in DOMAIN p \cup {"isBoundSpell"} |->
                     IF f = "isBoundSpell" THEN TRUE ELSE p[f]] : p \in given}

MagicInit ==
  \E p \in MagicFamily : DirectCall([fn |-> "runMagicSimulation", params |-> p])

MagicNext ==
  \/ runMagicSimulation
  \/ castSpell
  \/ castFailed
  \/ dispelSpell
  \/ runMagicSimulationReturn

MagicSpec == MagicInit /\ [][MagicNext]_vars

(***************************************************************************)
(* Properties                                                              *)
(***************************************************************************)
Totals == {distribution[k] : k \in 1..Len(distribution)}

\* C1: for every valid parameter set (thresholds in 2..6, auto, none; attack
\* count and multiple wounds an integer or a dice expression of the grammar)
\* every entry of the array runSimulation returns is a non-negative integer.
C1_TotalsNonNegative == pc = "returned" => \A t \in Totals : t \in Nat

\* C2: with toHit = "none" every trial's total is exactly 0, whatever the
\* other parameters are.
C2_NoHitNoDamage == fullParams.toHit = None => \A t \in Totals : t = 0

C2_Witness ==
  /\ pc = "returned"
  /\ fullParams.toHit = None
  /\ Len(distribution) = 1
  /\ numAttacks = 1
  /\ fullParams.fury /\ fullParams.redFury /\ fullParams.poison
  /\ fullParams.poisonOn5Plus /\ fullParams.lethalStrike
  /\ fullParams.rerollHitFailures = "all"
  /\ fullParams.toWound = Auto

\* the parameters of C3: both rolls automatic, no armor save, a fixed number
\* of attacks, one wound per unsaved wound, every other optional parameter
\* at its default
C3_Parameters ==
  /\ fullParams.toHit = Auto
  /\ fullParams.toWound = Auto
  /\ fullParams.armorSave = None
  /\ fullParams.numAttacks.type = "number"
  /\ fullParams.multipleWounds = NumberExpr(1)
  /\ \A f \in DOMAIN DEFAULT_PARAMS \ {"armorSave", "multipleWounds", "iterations"} :
       fullParams[f] = DEFAULT_PARAMS[f]

\* C3: with toHit = "auto", toWound = "auto", armorSave = "none", a fixed
\* attack count N, multipleWounds = 1 and the other optional parameters at
\* their defaults, every trial's total is exactly N.
C3_AutoHitAutoWound ==
  C3_Parameters => \A t \in Totals : t = fullParams.numAttacks.value

C3_Witness ==
  /\ C3_Parameters
  /\ pc = "returned"
  /\ Len(distribution) = MaxIterations
  /\ fullParams.numAttacks.value = MaxAttacks


\* one iteration of the loop of applyMultipleWounds
MultipleWoundsStep == pc = "multiple" /\ pc' = "multiple" /\ i' = i + 1

\* the scenario of C4: one attack, both rolls automatic, multipleWounds = 10,
\* targetMaxWounds = 3, the other optional parameters at their defaults
C4_Parameters ==
  /\ fullParams.numAttacks = NumberExpr(1)
  /\ fullParams.toHit = Auto
  /\ fullParams.toWound = Auto
  /\ fullParams.multipleWounds = NumberExpr(10)
  /\ fullParams.targetMaxWounds = 3
  /\ \A f \in DOMAIN DEFAULT_PARAMS \ {"multipleWounds", "targetMaxWounds", "iterations"} :
       fullParams[f] = DEFAULT_PARAMS[f]

\* C4: the multiple-wounds expression is evaluated once per surviving wound,
\* each value is capped at targetMaxWounds on its own and the capped values
\* are summed (the running sum is never capped); with a fixed value v the
\* damage of k wounds is k * min(v, cap); one automatic hit and wound with
\* multipleWounds = 10 and cap 3 totals exactly 3.
C4_PerWoundCap ==
  /\ [][MultipleWoundsStep =>
          totalWounds' = totalWounds + Min(woundsPerHit', fullParams.targetMaxWounds)]_vars
  /\ [][distribution' # distribution => i = Len(unsavedAfterSpecial)]_vars
  /\ [](pc = "multiple" /\ fullParams.multipleWounds.type = "number" =>
          totalWounds = i * Min(fullParams.multipleWounds.value, fullParams.targetMaxWounds))
  /\ [](C4_Parameters => \A t \in Totals : t = 3)

C4_Witness ==
  /\ pc = "multiple"
  /\ "targetMaxWounds" \in DOMAIN params
  /\ i = 2
  /\ woundsPerHit > fullParams.targetMaxWounds
  /\ totalWounds = 2 * fullParams.targetMaxWounds

\* C5 as claimed: with targetMaxWounds omitted every surviving wound
\* contributes its full multiple-wounds value to the total.
C5_OmittedCapUnbounded ==
  [][MultipleWoundsStep /\ "targetMaxWounds" \notin DOMAIN params =>
       totalWounds' = totalWounds + woundsPerHit']_vars

\* C5, amended: with targetMaxWounds omitted the cap is the default 3: every
\* surviving wound contributes min(value, 3) to the total.
C5_OmittedCapIsThree ==
  [][MultipleWoundsStep /\ "targetMaxWounds" \notin DOMAIN params =>
       totalWounds' = totalWounds + Min(woundsPerHit', 3)]_vars

C5_Witness ==
  /\ pc = "multiple"
  /\ "targetMaxWounds" \notin DOMAIN params
  /\ i = 2
  /\ woundsPerHit = 10
  /\ totalWounds = 6

\* C6: with redFury the pipeline runs once on the initial attack count and
\* then once more on as many attacks as wounds survived the special saves of
\* the first pass (their number, not their damage); the trial's total is the
\* sum of the damage of the two passes; with no survivor there is no second
\* pass and the total is the damage of the first.
C6_RedFuryPasses ==
  /\ [][pc = "loop" /\ pc' = "hit" =>
          pass' = 1 /\ Returns(numAttacks') \in parseDiceExpression(fullParams.numAttacks)]_vars
  /\ [][/\ pc = "multiple" /\ pc' \notin {"multiple", "error"}
        /\ pass = 1 /\ fullParams.redFury /\ Len(unsavedAfterSpecial) > 0
        => /\ pass' = 2 /\ pc' = "hit"
           /\ numAttacks' = Len(unsavedAfterSpecial)
           /\ baseWounds' = totalWounds
           /\ distribution' = distribution]_vars
  /\ [][distribution' # distribution /\ fullParams.redFury =>
          /\ distribution' = Append(distribution,
               IF pass = 1 THEN totalWounds ELSE baseWounds + totalWounds)
          /\ pass = 1 => Len(unsavedAfterSpecial) = 0
          /\ pass = 2 => numAttacks = unsavedHits /\ unsavedHits > 0]_vars

C6_Witness ==
  /\ pc = "returned"
  /\ fullParams.redFury
  /\ pass = 2
  /\ unsavedHits = 2
  /\ baseWounds = 5
  /\ totalWounds = 3
  /\ distribution = <<8>>

\* one iteration of the loops of the four roll-based phases
HitStep == pc = "hit" /\ i' = i + 1
WoundStep == pc = "wound" /\ i' = i + 1
ArmorStep == pc = "armor" /\ i' = i + 1
SpecialStep == pc = "special" /\ i' = i + 1

\* the trackers the step pushes
NewHits == SubSeq(hitTrackers', Len(hitTrackers) + 1, Len(hitTrackers'))
NewWounds == SubSeq(woundTrackers', Len(woundTrackers) + 1, Len(woundTrackers'))

LethalCount(trackers) == Cardinality({k \in 1..Len(trackers) : trackers[k].isLethal})

MeetsThreshold(roll, target) ==
  target.tag = "auto" \/ (target.tag = "num" /\ roll >= target.n)

\* C8: a hit tracker is poisoned exactly when the attack hits (the final,
\* possibly rerolled, die meets the threshold) and poison is enabled and the
\* original roll was 6, or poisonOn5Plus is enabled and the original roll was
\* at least 5; the rerolled value neither triggers nor removes poison.
C8_PoisonOnOriginalRoll ==
  [][HitStep =>
       /\ NewHits # <<>> <=> MeetsThreshold(die'.roll, batchParams.toHit)
       /\ NewHits # <<>> =>
            (NewHits[1].isPoison <=>
               \/ batchParams.poison /\ die'.unmodifiedRoll = 6
               \/ batchParams.poisonOn5Plus /\ die'.unmodifiedRoll >= 5)]_vars

C8_Witness ==
  /\ pc = "hit"
  /\ fullParams.poison /\ ~fullParams.poisonOn5Plus
  /\ die.rerolled /\ die.unmodifiedRoll = 6 /\ die.roll = 4
  /\ i = 1
  /\ hitTrackers = <<Tracker(TRUE, FALSE)>>

\* C9: a poisoned hit becomes a wound without a wound die being rolled,
\* whatever the wound threshold ("none" included) and the wound reroll
\* policies are, and its tracker goes on unchanged: poisoned, not lethal.
C9_PoisonAutoWounds ==
  [][WoundStep /\ hitTrackers[i + 1].isPoison =>
       /\ woundTrackers' = Append(woundTrackers, hitTrackers[i + 1])
       /\ NewWounds = <<Tracker(TRUE, FALSE)>>
       /\ ~die'.rolled]_vars

C9_Witness ==
  /\ pc = "armor"
  /\ fullParams.toWound = None
  /\ fullParams.lethalStrike
  /\ fullParams.rerollWoundFailures = "all"
  /\ woundTrackers = <<Tracker(TRUE, FALSE)>>
  /\ Len(hitTrackers) = 2

\* C10: with fury a successful hit whose original roll was 6 adds exactly
\* one extra tracker, which is not poisoned and adds no further hit; no
\* other attack adds an extra hit; without fury the hit phase yields at most
\* one tracker per attack.
C10_FuryExtraHit ==
  /\ [][HitStep =>
          /\ Len(NewHits) =
               IF ~MeetsThreshold(die'.roll, batchParams.toHit) THEN 0
               ELSE IF batchParams.fury /\ die'.unmodifiedRoll = 6 THEN 2
               ELSE 1
          /\ Len(NewHits) = 2 => NewHits[2] = Tracker(FALSE, FALSE)]_vars
  /\ [](~fullParams.fury /\ pc = "hit" => Len(hitTrackers) <= i)

C10_Witness ==
  /\ pc = "hit"
  /\ fullParams.fury /\ fullParams.poison
  /\ die.rerolled /\ die.unmodifiedRoll = 6 /\ die.roll = 4
  /\ i = 1
  /\ hitTrackers = <<Tracker(TRUE, FALSE), Tracker(FALSE, FALSE)>>

\* what the armor step does with the wound it looks at
ArmorPropagates == unsavedAfterArmor' = Append(unsavedAfterArmor, woundTrackers[i + 1])
ArmorDrops == unsavedAfterArmor' = unsavedAfterArmor

\* min(7, armorSave + armorPiercing) of a numeric armorSave
EffectiveArmorThreshold ==
  IF batchParams.armorSave.n + batchParams.armorPiercing < 7
  THEN batchParams.armorSave.n + batchParams.armorPiercing
  ELSE 7

\* C11: for a non-lethal wound in the armor-save phase, armorSave "none"
\* always propagates the wound and armorSave "auto" always drops it, both
\* without a roll; for a numeric armorSave the effective threshold is
\* min(7, armorSave + armorPiercing): above 6 the wound propagates without a
\* roll, otherwise a die is rolled and the wound propagates exactly when the
\* final (possibly rerolled) die is below the effective threshold.
C11_ArmorSave ==
  [][ArmorStep /\ ~woundTrackers[i + 1].isLethal =>
       /\ batchParams.armorSave.tag = "none" => ArmorPropagates /\ ~die'.rolled
       /\ batchParams.armorSave.tag = "auto" => ArmorDrops /\ ~die'.rolled
       /\ batchParams.armorSave.tag = "num" =>
            IF EffectiveArmorThreshold > 6
            THEN ArmorPropagates /\ ~die'.rolled
            ELSE /\ die'.rolled
                 /\ ArmorPropagates <=> die'.roll < EffectiveArmorThreshold
                 /\ ArmorPropagates \/ ArmorDrops]_vars

\* a 4+ armor save pierced by 1: the rerolled die comes up 4 and the wound
\* gets through
C11_Witness ==
  /\ pc = "armor"
  /\ i = 1
  /\ fullParams.armorSave = Target(4)
  /\ fullParams.armorPiercing = 1
  /\ ~woundTrackers[1].isLethal
  /\ die = Rolled(6, TRUE, 4)
  /\ unsavedAfterArmor = <<woundTrackers[1]>>

\* the roll fails against the threshold
FailsThreshold(roll, target) ==
  target.tag = "none" \/ (target.tag = "num" /\ roll < target.n)

\* C12: shouldRerollSplit(roll, threshold, failurePolicy, successPolicy) is
\* true exactly when the roll fails against the threshold (threshold "none",
\* or numeric with roll < threshold) and failurePolicy is "all" or is "1s"
\* with roll = 1, or the roll succeeds (threshold "auto", or numeric with
\* roll >= threshold) and successPolicy is "all" or is "6s" with roll = 6.
C12_RerollTable ==
  pc = "done" /\ output.fn = "shouldRerollSplit" =>
    (output.value <=>
       \/ /\ FailsThreshold(input.roll, input.target)
          /\ \/ input.rerollFailures = "all"
             \/ input.rerollFailures = "1s" /\ input.roll = 1
       \/ /\ MeetsThreshold(input.roll, input.target)
          /\ \/ input.rerollSuccesses = "all"
             \/ input.rerollSuccesses = "6s" /\ input.roll = 6)

\* a 6 against "auto" with the 6s rerolled
C12_Witness ==
  /\ pc = "done"
  /\ input = [fn |-> "shouldRerollSplit", roll |-> 6, target |-> Auto,
              rerollFailures |-> "all", rerollSuccesses |-> "6s"]
  /\ output.value

\* the expression with its whitespace removed, in lower case
Normalised(s) ==
  LET kept == SelectSeq(s, LAMBDA c : c # " ")
  IN  [k \in 1..Len(kept) |-> IF kept[k] = "D" THEN "d" ELSE kept[k]]

\* e is [count]d(3|6)[(+|-)digits]
InGrammar(e) ==
  \E k \in 1..Len(e) :
    /\ e[k] = "d"
    /\ \A j \in 1..(k - 1) : e[j] \in Digits
    /\ Len(e) >= k + 1
    /\ e[k + 1] \in {"3", "6"}
    /\ \/ Len(e) = k + 1
       \/ /\ Len(e) >= k + 3
          /\ e[k + 2] \in {"+", "-"}
          /\ \A j \in (k + 3)..Len(e) : e[j] \in Digits

\* the number a string of digits writes
RECURSIVE DecimalValue(_)
DecimalValue(ds) ==
  IF ds = <<>> THEN 0
  ELSE 10 * DecimalValue(SubSeq(ds, 1, Len(ds) - 1)) + DigitValue(ds[Len(ds)])

\* N, S and M of an expression NdS+M of the grammar
DiePosition(e) == CHOOSE k \in 1..Len(e) : e[k] = "d"
DiceCount(e) ==
  IF DiePosition(e) = 1 THEN 1 ELSE DecimalValue(SubSeq(e, 1, DiePosition(e) - 1))
DiceSides(e) == DigitValue(e[DiePosition(e) + 1])
DiceModifier(e) ==
  LET digits == SubSeq(e, DiePosition(e) + 3, Len(e))
  IN  IF Len(e) = DiePosition(e) + 1 THEN 0
      ELSE IF e[DiePosition(e) + 2] = "-" THEN 0 - DecimalValue(digits)
      ELSE DecimalValue(digits)

ParsedString ==
  pc = "done" /\ output.fn = "parseDiceExpression" /\ input.expression.type = "string"

C15_MalformedThrows ==
  /\ ParsedString
  /\ ~IsDigits(Normalised(input.expression.value))
  /\ ~InGrammar(Normalised(input.expression.value))
  => output.result = Throws

\* "d6+": a sign without digits
C15_Witness ==
  /\ pc = "done"
  /\ input.fn = "parseDiceExpression"
  /\ input.expression = StringExpr(<<"d", "6", "+">>)
  /\ output.result = Throws

\* the reroll eligibility of a roll: the failure-side policy of a failed
\* roll, the success-side policy of a successful one
RerollEligible(roll, target, rerollFailures, rerollSuccesses) ==
  \/ /\ FailsThreshold(roll, target)
     /\ rerollFailures = "all" \/ (rerollFailures = "1s" /\ roll = 1)
  \/ /\ MeetsThreshold(roll, target)
     /\ rerollSuccesses = "all" \/ (rerollSuccesses = "6s" /\ roll = 6)

\* the die of the step: rolled once, or twice with the first value eligible;
\* a die that was not rolled again keeps its value
RolledAtMostTwice(target, rerollFailures, rerollSuccesses) ==
  /\ die'.rolls \in {1, 2}
  /\ die'.rolls = 2 <=> die'.rerolled
  /\ die'.rerolled =>
       RerollEligible(die'.unmodifiedRoll, target, rerollFailures, rerollSuccesses)
  /\ ~die'.rerolled => die'.roll = die'.unmodifiedRoll

\* C13: in the hit, wound, armor-save and special-save phases each die is
\* rolled at most twice, the second time only when the first value is
\* eligible for a reroll; the last value rolled decides success and is not
\* checked for eligibility again, whatever the two policies are.
C13_AtMostOneReroll ==
  /\ [][HitStep /\ die'.rolled =>
          /\ RolledAtMostTwice(batchParams.toHit, batchParams.rerollHitFailures,
                               batchParams.rerollHitSuccesses)
          /\ NewHits # <<>> <=> MeetsThreshold(die'.roll, batchParams.toHit)]_vars
  /\ [][WoundStep /\ die'.rolled =>
          /\ RolledAtMostTwice(batchParams.toWound, batchParams.rerollWoundFailures,
                               batchParams.rerollWoundSuccesses)
          /\ NewWounds # <<>> <=> MeetsThreshold(die'.roll, batchParams.toWound)]_vars
  /\ [][ArmorStep /\ die'.rolled =>
          /\ RolledAtMostTwice(Target(EffectiveArmorThreshold),
                               batchParams.rerollArmorSaveFailures,
                               batchParams.rerollArmorSaveSuccesses)
          /\ ArmorDrops <=> MeetsThreshold(die'.roll, Target(EffectiveArmorThreshold))]_vars
  /\ [][SpecialStep /\ die'.rolled =>
          /\ RolledAtMostTwice(batchParams.specialSave,
                               batchParams.rerollSpecialSaveFailures,
                               batchParams.rerollSpecialSaveSuccesses)
          /\ unsavedAfterSpecial' = unsavedAfterSpecial
               <=> MeetsThreshold(die'.roll, batchParams.specialSave)]_vars

\* both policies "all": the first die is rolled again, the second value is a
\* 1 that fails the 4+ and is rerolled no more, and the attack misses
C13_Witness ==
  /\ pc = "hit"
  /\ i = 1
  /\ fullParams.toHit = Target(4)
  /\ fullParams.rerollHitFailures = "all"
  /\ fullParams.rerollHitSuccesses = "all"
  /\ die.rerolled
  /\ die.rolls = 2
  /\ die.roll = 1
  /\ hitTrackers = <<>>

\* the expression is a string that is neither all digits nor of the grammar
Malformed(e) ==
  /\ e.type = "string"
  /\ ~IsDigits(Normalised(e.value))
  /\ ~InGrammar(Normalised(e.value))

\* C16: with a malformed attack-count expression or a malformed
\* multiple-wounds expression, a runSimulation of at least one trial never
\* returns totals, whatever the other parameters are.
C16_MalformedNeverReturns ==
  /\ Malformed(fullParams.numAttacks) \/ Malformed(fullParams.multipleWounds)
  /\ fullParams.iterations >= 1
  => pc # "returned"

\* the configured trial count: iterations, 10000 when it is left out
ConfiguredIterations ==
  IF "iterations" \in DOMAIN params THEN params.iterations ELSE 10000

\* C17: runSimulation returns one total per trial, so the array it returns
\* has as many entries as the configured iterations (10000 when iterations
\* is left out), and the results of runSimulationWithStats carry that count
\* as totalIterations together with a distribution of that length.
C17_OneTotalPerTrial ==
  /\ pc = "returned" => Len(distribution) = ConfiguredIterations
  /\ pc = "stats" =>
       /\ output.results.totalIterations = ConfiguredIterations
       /\ Len(output.results.distribution) = ConfiguredIterations

\* two trials asked for, one attack each: two totals returned and reported
C17_Witness ==
  /\ pc = "stats"
  /\ params.iterations = 2
  /\ params.numAttacks = NumberExpr(1)
  /\ distribution = <<1, 0>>
  /\ output.results.totalIterations = 2
  /\ output.results.distribution = <<1, 0>>

\* the points calculateStatistics built from a non-empty array of totals
BuiltDistribution ==
  pc = "done" /\ output.fn = "calculateStatistics"

RECURSIVE SumCounts(_, _)
SumCounts(points, k) ==
  IF k = 0 THEN 0 ELSE SumCounts(points, k - 1) + points[k].count

Occurring(values) == {values[k] : k \in 1..Len(values)}

\* C18: for every non-empty array of totals the occurrence counts of the
\* probability distribution sum to the length of the array, its exact
\* probabilities sum to 100, and the cumulative value of the point of the
\* largest total is 100.
C18_DistributionTotals ==
  BuiltDistribution /\ Len(input.distribution) > 0 =>
    LET points == output.results.probabilityDistribution
        last == points[Len(points)]
    IN  /\ SumCounts(points, Len(points)) = Len(input.distribution)
        /\ SumOf([k \in 1..Len(points) |-> points[k].probability], 1, Len(points))
             = Number(100)
        /\ last.wounds \in Occurring(input.distribution)
        /\ \A v \in Occurring(input.distribution) : v <= last.wounds
        /\ last.cumulative = Number(100)

\* three trials of 0, 3 and 0: probabilities of two thirds and one third
C18_Witness ==
  /\ BuiltDistribution
  /\ input.distribution = <<0, 3, 0>>
  /\ Len(output.results.probabilityDistribution) = 2
  /\ output.results.probabilityDistribution[1].probability = Ratio(200, 3)
  /\ output.results.probabilityDistribution[2].cumulative = Number(100)

\* C19: the probability distribution has exactly one point per distinct
\* value of the totals, in strictly ascending order of the value, and the
\* cumulative of a point is the sum of the probabilities of the points whose
\* value is at most its own.
C19_PointsAscending ==
  BuiltDistribution =>
    LET points == output.results.probabilityDistribution
    IN  /\ Len(points) = Cardinality(Occurring(input.distribution))
        /\ {points[k].wounds : k \in 1..Len(points)} = Occurring(input.distribution)
        /\ \A k \in 1..(Len(points) - 1) : points[k].wounds < points[k + 1].wounds
        /\ \A k \in 1..Len(points) :
             points[k].cumulative =
               SumOf([j \in 1..Len(points) |->
                        IF points[j].wounds <= points[k].wounds
                        THEN points[j].probability ELSE Number(0)],
                     1, Len(points))

\* totals given out of order, one of them twice: three points 0, 1, 3
C19_Witness ==
  /\ BuiltDistribution
  /\ input.distribution = <<3, 0, 3, 1>>
  /\ Len(output.results.probabilityDistribution) = 3
  /\ output.results.probabilityDistribution[2].wounds = 1
  /\ output.results.probabilityDistribution[2].cumulative = Number(50)

\* C20: getProbabilityAtLeast(distribution, t) is the percentage of the
\* trials whose total is at least t, for every distribution built from a
\* non-empty array and every integer t: a t below the smallest total, a t
\* between two totals and a t above the largest (0) included.
C20_AtLeast ==
  /\ pc = "done"
  /\ output.fn = "getProbabilityAtLeast"
  /\ Len(input.distribution) > 0
  => output.value =
       Times(Over(Number(Cardinality({k \in 1..Len(input.distribution) :
                                        input.distribution[k] >= output.targetWounds})),
                  Number(Len(input.distribution))),
             Number(100))

\* the statistics calculateStatistics returned
Statistics == output.results

\* C21: calculateStatistics of the empty array returns the number 0 for the
\* mean, the median, the mode, the variance, both percentiles, the minimum
\* and the maximum, and an empty probability distribution.
C21_EmptyStatistics ==
  BuiltDistribution /\ input.distribution = <<>> =>
    /\ Statistics.mean = Number(0)
    /\ Statistics.median = Number(0)
    /\ Statistics.mode = 0
    /\ Statistics.variance = Number(0)
    /\ Statistics.percentile10 = Number(0)
    /\ Statistics.percentile90 = Number(0)
    /\ Statistics.min = 0
    /\ Statistics.max = 0
    /\ Statistics.probabilityDistribution = <<>>

\* calculateStatistics has returned for the empty array
C21_Witness ==
  /\ BuiltDistribution
  /\ input.distribution = <<>>
  /\ Statistics.distribution = <<>>
  /\ Statistics.totalIterations = 0
  /\ Statistics.max = 0

\* the k-th smallest of the values, counted with repetitions
KthSmallest(values, k) ==
  CHOOSE v \in Occurring(values) :
    /\ Cardinality({j \in 1..Len(values) : values[j] < v}) < k
    /\ Cardinality({j \in 1..Len(values) : values[j] <= v}) >= k

\* a <= b for the numbers a and b
AtMost(a, b) == a.num * b.den <= b.num * a.den

\* C26: the median of n >= 1 totals is the middle one of the sorted totals
\* when n is odd and the average of the two middle ones when n is even, and
\* it lies between the minimum and the maximum.
C26_Median ==
  BuiltDistribution /\ Len(input.distribution) > 0 =>
    LET values == input.distribution
        n == Len(values)
    IN  /\ Statistics.median =
             IF n % 2 = 1 THEN Number(KthSmallest(values, (n + 1) \div 2))
             ELSE Over(Number(KthSmallest(values, n \div 2)
                                + KthSmallest(values, n \div 2 + 1)),
                       Number(2))
        /\ Statistics.min = KthSmallest(values, 1)
        /\ Statistics.max = KthSmallest(values, n)
        /\ AtMost(Number(Statistics.min), Statistics.median)
        /\ AtMost(Statistics.median, Number(Statistics.max))

\* four totals given out of order: the median 3/2 is between the two middle
\* ones, 1 and 2
C26_Witness ==
  /\ BuiltDistribution
  /\ input.distribution = <<3, 0, 2, 1>>
  /\ Statistics.median = Ratio(3, 2)
  /\ Statistics.min = 0
  /\ Statistics.max = 3

\* how often v occurs in the values, and where it occurs first
Occurrences(values, v) == Cardinality({k \in 1..Len(values) : values[k] = v})
FirstOccurrence(values, v) ==
  CHOOSE k \in 1..Len(values) :
    values[k] = v /\ \A j \in 1..(k - 1) : values[j] # v

\* C27: the mode of a non-empty array of totals occurs in it at least as
\* often as every other value, and every other value that occurs as often
\* occurs first at a later place of the array.
C27_Mode ==
  BuiltDistribution /\ Len(input.distribution) > 0 =>
    LET values == input.distribution
        mode == Statistics.mode
    IN  /\ mode \in Occurring(values)
        /\ \A v \in Occurring(values) :
             /\ Occurrences(values, v) <= Occurrences(values, mode)
             /\ Occurrences(values, v) = Occurrences(values, mode) /\ v # mode
                  => FirstOccurrence(values, mode) < FirstOccurrence(values, v)

\* 3 and 0 occur twice each, 3 first: the mode is 3, not the smaller 0
C27_Witness ==
  /\ BuiltDistribution
  /\ input.distribution = <<3, 0, 0, 3>>
  /\ Statistics.mode = 3

\* a trial is inside the pipeline
TrialRunning == pc \in {"hit", "wound", "armor", "special", "multiple"}

\* what is left of a trial: the passes, the phases of the pass and the
\* iterations of the loop of the phase
PassesLeft == 2 - pass
PhasesLeft ==
  CASE pc = "hit" -> 4
    [] pc = "wound" -> 3
    [] pc = "armor" -> 2
    [] pc = "special" -> 1
    [] OTHER -> 0
IterationsLeft ==
  LET length == CASE pc = "hit" -> numAttacks
                  [] pc = "wound" -> Len(hitTrackers)
                  [] pc = "armor" -> Len(woundTrackers)
                  [] pc = "special" -> Len(unsavedAfterArmor)
                  [] OTHER -> Len(unsavedAfterSpecial)
  IN  IF i < length THEN length - i ELSE 0

\* every step inside a trial ends the trial or leaves less of it, in the
\* order of passes, phases, iterations
TrialAdvances ==
  /\ PassesLeft \in Nat /\ PhasesLeft \in Nat /\ IterationsLeft \in Nat
  /\ \/ ~TrialRunning'
     \/ PassesLeft' < PassesLeft
     \/ PassesLeft' = PassesLeft /\ PhasesLeft' < PhasesLeft
     \/ PassesLeft' = PassesLeft /\ PhasesLeft' = PhasesLeft
          /\ IterationsLeft' < IterationsLeft

\* C24: a trial runs one pass of the pipeline or two; in the second pass
\* every step is the step of the parameters the caller passed (fury, poison,
\* lethal strike, rerolls, saves, multiple wounds and the cap as given); the
\* end of the second pass ends the trial with the sum of the two passes, so
\* no further attacks are generated; and every step of a trial leaves
\* strictly less of it to run (passes, then phases, then loop iterations,
\* each a natural number), so every trial ends.
C24_TwoPasses ==
  /\ [](pass \in {1, 2})
  /\ [][pass = 2 /\ HitStep =>
          /\ die' \in RollWithReroll(fullParams.toHit, fullParams.rerollHitFailures,
                                     fullParams.rerollHitSuccesses)
          /\ NewHits = hitsOfAttack(die', fullParams)]_vars
  /\ [][pass = 2 /\ WoundStep /\ die'.rolled =>
          NewWounds = woundsOfHit(hitTrackers[i + 1], die', fullParams)]_vars
  /\ [][pass = 2 /\ ArmorStep /\ die'.rolled =>
          /\ die' \in RollWithReroll(Target(modifiedArmorSave(fullParams)),
                                     fullParams.rerollArmorSaveFailures,
                                     fullParams.rerollArmorSaveSuccesses)
          /\ ArmorPropagates <=> die'.roll < modifiedArmorSave(fullParams)]_vars
  /\ [][pass = 2 /\ MultipleWoundsStep =>
          /\ Returns(woundsPerHit') \in parseDiceExpression(fullParams.multipleWounds)
          /\ totalWounds' = totalWounds + Min(woundsPerHit', fullParams.targetMaxWounds)]_vars
  /\ [][pass = 2 /\ pc = "multiple" /\ pc' # "multiple" =>
          \/ pc' = "error"
          \/ /\ pc' = "loop"
             /\ i = Len(unsavedAfterSpecial)
             /\ distribution' = Append(distribution, baseWounds + totalWounds)]_vars
  /\ [][pass' # pass => pass = 1 /\ pass' = 2 /\ fullParams.redFury]_vars
  /\ [][TrialRunning => TrialAdvances]_vars

\* the second pass of a trial with redFury and fury: its first attack rolled
\* a 6 and pushed two hits
C24_Witness ==
  /\ pc = "hit"
  /\ pass = 2
  /\ fullParams.redFury /\ fullParams.fury
  /\ i = 1
  /\ die.unmodifiedRoll = 6
  /\ Len(hitTrackers) = 2
\* short is long with some of its elements left out
RECURSIVE IsSubsequence(_, _)
IsSubsequence(short, long) ==
  IF short = <<>> THEN TRUE
  ELSE IF long = <<>> THEN FALSE
  ELSE IF Head(short) = Head(long) THEN IsSubsequence(Tail(short), Tail(long))
  ELSE IsSubsequence(short, Tail(long))

\* the step leaves the sequence as it is or appends the tracker to it
KeepsOrAppends(after, before, tracker) ==
  after = before \/ after = Append(before, tracker)

\* C25: the hit phase pushes trackers that are not lethal and touches no
\* other sequence; the wound phase pushes trackers with the isPoison of the
\* hit they come from and leaves the hits alone; a step of the armor-save
\* or of the special-save phase leaves the earlier sequences alone and
\* appends the tracker it read, unchanged, or nothing; so what each save
\* phase puts out is a subsequence of what it was given.
C25_TrackersWriteOnce ==
  /\ [][HitStep =>
          /\ \A k \in 1..Len(NewHits) : ~NewHits[k].isLethal
          /\ hitTrackers' = hitTrackers \o NewHits
          /\ UNCHANGED <<woundTrackers, unsavedAfterArmor, unsavedAfterSpecial>>]_vars
  /\ [][WoundStep =>
          /\ woundTrackers' = woundTrackers \o NewWounds
          /\ Len(NewWounds) <= 1
          /\ \A k \in 1..Len(NewWounds) :
               NewWounds[k].isPoison = hitTrackers[i + 1].isPoison
          /\ UNCHANGED <<hitTrackers, unsavedAfterArmor, unsavedAfterSpecial>>]_vars
  /\ [][ArmorStep =>
          /\ KeepsOrAppends(unsavedAfterArmor', unsavedAfterArmor, woundTrackers[i + 1])
          /\ UNCHANGED <<hitTrackers, woundTrackers, unsavedAfterSpecial>>]_vars
  /\ [][SpecialStep =>
          /\ KeepsOrAppends(unsavedAfterSpecial', unsavedAfterSpecial,
                            unsavedAfterArmor[i + 1])
          /\ UNCHANGED <<hitTrackers, woundTrackers, unsavedAfterArmor>>]_vars
  /\ [][pc = "multiple" /\ pc' = "multiple" => UNCHANGED batch]_vars
  /\ [](/\ IsSubsequence(unsavedAfterArmor, woundTrackers)
        /\ IsSubsequence(unsavedAfterSpecial, unsavedAfterArmor))

\* a poisoned wound and a lethal one went into the armor save of 4+: the
\* poisoned one was saved, the lethal one came out as it went in
C25_Witness ==
  /\ pc = "special"
  /\ fullParams.armorSave = Target(4)
  /\ woundTrackers = <<Tracker(TRUE, FALSE), Tracker(FALSE, TRUE)>>
  /\ unsavedAfterArmor = <<Tracker(FALSE, TRUE)>>

AllTrackers ==
  {hitTrackers[k] : k \in 1..Len(hitTrackers)}
  \cup {woundTrackers[k] : k \in 1..Len(woundTrackers)}
  \cup {unsavedAfterArmor[k] : k \in 1..Len(unsavedAfterArmor)}
  \cup {unsavedAfterSpecial[k] : k \in 1..Len(unsavedAfterSpecial)}

\* C28: in every state of every phase of every pass no tracker of any of the
\* four sequences is both poisoned and lethal.
C28_NeverPoisonAndLethal ==
  \A tracker \in AllTrackers : ~(tracker.isPoison /\ tracker.isLethal)

\* poison and lethalStrike enabled together: one wound is poisoned, the
\* other lethal
C28_Witness ==
  /\ fullParams.poison /\ fullParams.lethalStrike
  /\ pc = "armor"
  /\ woundTrackers = <<Tracker(TRUE, FALSE), Tracker(FALSE, TRUE)>>

\* the attack count of the pass, 0 when it is negative
AttackCount == IF numAttacks < 0 THEN 0 ELSE numAttacks

\* C29: in every state the survivors of the special save are at most the
\* survivors of the armor save, these at most the wounds, these at most the
\* hits, and the hits at most the attack count of the pass, or twice that
\* with fury; the damage of the pass is at most targetMaxWounds per survivor
\* of the special save.
C29_CountsBounded ==
  /\ Len(unsavedAfterSpecial) <= Len(unsavedAfterArmor)
  /\ Len(unsavedAfterArmor) <= Len(woundTrackers)
  /\ Len(woundTrackers) <= Len(hitTrackers)
  /\ Len(hitTrackers) <= IF batchParams.fury THEN 2 * AttackCount ELSE AttackCount
  /\ totalWounds <= Len(unsavedAfterSpecial) * batchParams.targetMaxWounds

\* every attack with fury gave two hits, two wounds and two survivors, and
\* each survivor the capped 3
C29_Witness ==
  /\ pc = "multiple"
  /\ fullParams.fury
  /\ numAttacks = MaxAttacks
  /\ Len(hitTrackers) = 2 * MaxAttacks
  /\ Len(unsavedAfterSpecial) = 2 * MaxAttacks
  /\ fullParams.targetMaxWounds = 3
  /\ i = 2 * MaxAttacks
  /\ totalWounds = 6 * MaxAttacks

\* C30: with toHit = "auto" every attack rolls a die and hits, the first
\* tracker is poisoned exactly when poison (original roll 6) or poisonOn5Plus
\* (original roll 5 or 6) asks for it, and fury adds a second tracker exactly
\* when the original roll was 6, so without fury there are as many hits as
\* attacks made; with toWound = "auto" every hit that is not poisoned rolls a
\* die and wounds, and the wound is lethal exactly when lethalStrike is
\* enabled and the original roll was 6.
C30_AutoStillRolls ==
  /\ [][HitStep /\ batchParams.toHit = Auto =>
          /\ die'.rolled /\ die'.unmodifiedRoll \in 1..6
          /\ Len(NewHits) = IF batchParams.fury /\ die'.unmodifiedRoll = 6 THEN 2 ELSE 1
          /\ NewHits[1].isPoison <=>
               \/ batchParams.poison /\ die'.unmodifiedRoll = 6
               \/ batchParams.poisonOn5Plus /\ die'.unmodifiedRoll >= 5]_vars
  /\ [](pc = "hit" /\ batchParams.toHit = Auto /\ ~batchParams.fury =>
          Len(hitTrackers) = i)
  /\ [][WoundStep /\ batchParams.toWound = Auto /\ ~hitTrackers[i + 1].isPoison =>
          /\ die'.rolled /\ die'.unmodifiedRoll \in 1..6
          /\ Len(NewWounds) = 1
          /\ NewWounds[1].isLethal <=>
               batchParams.lethalStrike /\ die'.unmodifiedRoll = 6]_vars

\* both thresholds automatic and lethalStrike enabled: the wound die of the
\* first of two hits showed a 6 and the wound is lethal
C30_Witness ==
  /\ pc = "wound"
  /\ fullParams.toHit = Auto /\ fullParams.toWound = Auto
  /\ fullParams.lethalStrike
  /\ Len(hitTrackers) = 2
  /\ i = 1
  /\ die.rolled /\ die.unmodifiedRoll = 6
  /\ woundTrackers = <<Tracker(FALSE, TRUE)>>

\* runMagicSimulation is running or has returned
MagicRunning == input.fn = "runMagicSimulation" /\ pc \in {"trials", "cast", "done"}

\* the trials counted so far
MagicCounted == magic.castingFailures + magic.dispelSuccesses + magic.spellSuccesses

\* the end of a trial
MagicTrialEnds == magic'.i = magic.i + 1

\* every trial adds one to exactly one counter: to castingFailures when the
\* cast failed, to dispelSuccesses when it succeeded and was dispelled, to
\* spellSuccesses when it succeeded and was not; and the dispel dice are
\* rolled in the trials whose cast succeeded and in no other
MagicOutcomes ==
  /\ [](MagicRunning => MagicCounted = magic.i)
  /\ [][MagicTrialEnds =>
          /\ magic'.castingFailures =
               magic.castingFailures + IF ~magic.castSucceeded THEN 1 ELSE 0
          /\ magic'.dispelSuccesses =
               magic.dispelSuccesses
                 + IF magic.castSucceeded /\ magic'.dispelSucceeded THEN 1 ELSE 0
          /\ magic'.spellSuccesses =
               magic.spellSuccesses
                 + IF magic.castSucceeded /\ ~magic'.dispelSucceeded THEN 1 ELSE 0
          /\ magic'.dispelRolls > 0 <=> magic.castSucceeded]_vars
  /\ [](MagicRunning /\ magic.dispelRolls > 0 =>
          /\ magic.castSucceeded
          /\ magic.castingTotal >= fullMagicParams.castingValue)
  /\ [](pc = "done" /\ MagicRunning => MagicCounted = fullMagicParams.iterations)

IsNumber(a) == a.den # 0

\* the three percentages runMagicSimulation returned are numbers and sum to
\* 100
PercentagesSumTo100 ==
  LET results == output.results
  IN  /\ IsNumber(results.castingFailPercent)
      /\ IsNumber(results.dispelSuccessPercent)
      /\ IsNumber(results.spellSuccessPercent)
      /\ Plus(Plus(results.castingFailPercent, results.dispelSuccessPercent),
              results.spellSuccessPercent) = Number(100)

RECURSIVE SumNumbers(_)
SumNumbers(numbers) ==
  IF numbers = <<>> THEN 0 ELSE Head(numbers) + SumNumbers(Tail(numbers))

\* the 6 + 36 dice a phase can roll, numbered
DieAt(k) ==
  IF k <= 6 THEN Rolled(k, FALSE, k)
  ELSE Rolled(((k - 7) \div 6) + 1, TRUE, ((k - 7) % 6) + 1)
DieChances(d) == IF d.rerolled THEN 1 ELSE 6

\* the sum of value(d) over the dice, each counted with its chances in 36
Weighted(dice, value(_)) ==
  SumNumbers([k \in 1..42 |->
                IF DieAt(k) \in dice THEN DieChances(DieAt(k)) * value(DieAt(k))
                ELSE 0])

\* a value for each kind of tracker
ForTrackers(value(_)) ==
  [plain |-> value(Tracker(FALSE, FALSE)), poison |-> value(Tracker(TRUE, FALSE)),
   lethal |-> value(Tracker(FALSE, TRUE)), both |-> value(Tracker(TRUE, TRUE))]
OfTracker(values, tracker) ==
  IF tracker.isPoison
  THEN IF tracker.isLethal THEN values.both ELSE values.poison
  ELSE IF tracker.isLethal THEN values.lethal ELSE values.plain
SumOfTrackers(values, trackers) ==
  SumNumbers([k \in 1..Len(trackers) |-> OfTracker(values, trackers[k])])

\* the chances in 36 that a wound survives the special save
SpecialOdds(wound, p) ==
  IF skipsSpecialSave(wound) \/ p.specialSave = None THEN 36
  ELSE IF p.specialSave = Auto THEN 0
  ELSE Weighted(RollWithReroll(p.specialSave, p.rerollSpecialSaveFailures,
                               p.rerollSpecialSaveSuccesses),
                LAMBDA d : IF ~isSuccess(d.roll, p.specialSave) THEN 1 ELSE 0)

\* the chances in 36^2 that a wound survives both saves
ArmorOdds(wound, p, special) ==
  IF skipsArmorSave(wound) \/ p.armorSave = None
  THEN 36 * OfTracker(special, wound)
  ELSE IF p.armorSave = Auto THEN 0
  ELSE IF modifiedArmorSave(p) > 6 THEN 36 * OfTracker(special, wound)
  ELSE Weighted(RollWithReroll(Target(modifiedArmorSave(p)),
                               p.rerollArmorSaveFailures,
                               p.rerollArmorSaveSuccesses),
                LAMBDA d : IF ~isSuccess(d.roll, Target(modifiedArmorSave(p)))
                           THEN OfTracker(special, wound) ELSE 0)

\* the survivors a hit leaves on average, in 36^3
WoundOdds(hit, p, armor) ==
  IF autoWounds(hit) THEN 36 * OfTracker(armor, hit)
  ELSE Weighted(RollWithReroll(p.toWound, p.rerollWoundFailures,
                               p.rerollWoundSuccesses),
                LAMBDA d : SumOfTrackers(armor, woundsOfHit(hit, d, p)))

\* the survivors an attack leaves on average, in 36^4
HitOdds(p) ==
  LET special == ForTrackers(LAMBDA t : SpecialOdds(t, p))
      armor == ForTrackers(LAMBDA t : ArmorOdds(t, p, special))
      wound == ForTrackers(LAMBDA t : WoundOdds(t, p, armor))
  IN  Weighted(RollWithReroll(p.toHit, p.rerollHitFailures, p.rerollHitSuccesses),
               LAMBDA d : SumOfTrackers(wound, hitsOfAttack(d, p)))
ExpectedSurvivors(p) == Ratio(HitOdds(p), 36 * 36 * 36 * 36)

\* the values of an expression, each as likely as the others: a number, or
\* one die and a modifier
ValuesOf(expression) ==
  {o.value : o \in {r \in parseDiceExpression(expression) : ~r.throws}}
MeanOver(values, value(_)) ==
  LET lowest == CHOOSE v \in values : \A w \in values : v <= w
      highest == CHOOSE v \in values : \A w \in values : w <= v
  IN  Ratio(SumNumbers([k \in 1..(highest - lowest + 1) |->
                          IF lowest + k - 1 \in values THEN value(lowest + k - 1)
                          ELSE 0]),
            Cardinality(values))

\* the attacks of the first pass and the damage of a survivor, on average
ExpectedAttacks(p) ==
  MeanOver(ValuesOf(p.numAttacks), LAMBDA n : IF n < 0 THEN 0 ELSE n)
ExpectedDamage(p) ==
  MeanOver(ValuesOf(p.multipleWounds), LAMBDA v : cappedWounds(v, p))

\* the expected total of a trial: every survivor of the first pass is worth
\* its damage and, with Red Fury, the damage of the survivors of one more
\* attack
ExpectedTotal(p) ==
  LET survivors == ExpectedSurvivors(p)
  IN  Times(Times(ExpectedAttacks(p), ExpectedDamage(p)),
            IF p.redFury THEN Times(survivors, Plus(Number(1), survivors))
            ELSE survivors)

\* an / ad <= bn / bd for ad > 0 and bd > 0, by whole parts and remainders
RECURSIVE NotAboveParts(_, _, _, _)
NotAboveParts(an, ad, bn, bd) ==
  LET qa == an \div ad
      qb == bn \div bd
      ra == an - qa * ad
      rb == bn - qb * bd
  IN  IF qa # qb THEN qa < qb
      ELSE IF ra = 0 THEN TRUE
      ELSE IF rb = 0 THEN FALSE
      ELSE NotAboveParts(bd, rb, ad, ra)
NotAbove(a, b) == NotAboveParts(a.num, a.den, b.num, b.den)

AttackPolicies == {"rerollHitFailures", "rerollWoundFailures"}
SavePolicies == {"rerollArmorSaveFailures", "rerollSpecialSaveFailures"}

\* runSimulation has just been called
Called == pc = "loop" /\ distribution = <<>>

====
